---- MODULE Spec2Model ----
(***************************************************************************)
(* A model of go-flux: the single-pass bytecode compiler                   *)
(* (internal/compiler), the stack interpreter (internal/vm) and the        *)
(* busy-guarded host API (api.go).                                         *)
(*                                                                         *)
(* Go pointers are modelled as indices into the heap sequences of `heap`   *)
(* (arrays, objects, functions, upvalue cells, frame-local arrays,         *)
(* iterators); index 0 is the nil pointer.  Numbers are restricted to the  *)
(* integers.  Offsets into bytecode are 0-based as in the source, so the   *)
(* byte at offset i of a chunk is code[i + 1].                             *)
(***************************************************************************)
EXTENDS Integers, Sequences, FiniteSets, TLC

VARIABLES
    core,      \* the vm.VM struct of the interpreter owned by the API VM
    heap,      \* the Go heap reachable from vm.Value's (by reference)
    hostLog,   \* what the host's native functions have recorded so far
    pc,        \* "run" while VM.Run is in its dispatch loop, "idle" otherwise
    call,      \* the invocation in progress (or the last one): name, args
    result,    \* what the last complete invocation returned (value, error)
    ncalls,    \* number of invocations started so far
    busy,      \* api.VM.busy
    futures,   \* the futures CallAsync has returned, each with the position
               \* of its goroutine and the result sent on its channel
    dups,      \* the calls of VM.Duplicate made so far and their positions
    twin,      \* the VM a Duplicate returned, and which of the two VMs core is
    parser,    \* the Parser of a ParseProgram call and how far the call has come
    lexer,     \* the Lexer of some input and the tokens it has returned so far
    compiling, \* a program handed to compiler.Compile and what Compile returned
    handles,   \* the calls of VmFunctionHandle.Call made so far and their positions
    traced,    \* what the trace hook received in the last turn of Run's loop: the
               \* opcode and its offset (NoTrace if the hook was not called)
    nest       \* the activations of VM.Run that wait inside a native handler
               \* for a nested VM.Run to return, outermost first

vars ==
    <<core, heap, hostLog, pc, call, result, ncalls, busy, futures, dups, twin, parser, lexer,
      compiling, handles, traced, nest>>

(***************************************************************************)
(* Opcodes (bytecode package).                                             *)
(***************************************************************************)
OP_CONST == 0
OP_NULL == 1
OP_TRUE == 2
OP_FALSE == 3
OP_POP == 4
OP_ADD == 8
OP_SUB == 9
OP_MUL == 10
OP_DIV == 11
OP_NEG == 12
OP_NOT == 13
OP_EQ == 16
OP_NEQ == 17
OP_LT == 18
OP_LTE == 19
OP_GT == 20
OP_GTE == 21
OP_AND == 22
OP_OR == 23
OP_GET_GLOBAL == 24
OP_SET_GLOBAL == 25
OP_DEFINE_GLOBAL == 26
OP_GET_LOCAL == 32
OP_SET_LOCAL == 33
OP_GET_UPVALUE == 34
OP_SET_UPVALUE == 35
OP_ARRAY == 40
OP_OBJECT == 41
OP_RANGE == 42
OP_INDEX_GET == 43
OP_INDEX_SET == 44
OP_GET_PROP == 45
OP_SET_PROP == 46
OP_JUMP == 48
OP_JUMP_IF_FALSE == 49
OP_JUMP_IF_TRUE == 50
OP_CALL == 56
OP_RETURN == 57
OP_CLOSURE == 58
OP_NOP == 64
OP_DEBUG == 65
OP_ITER_PREP == 72
OP_ITER_NEXT == 73
OP_TYPEOF == 128
OP_ERROR == 129
OP_INDEX_EXIST == 130
OP_INDEX_READ == 131
OP_VALUE_EXIST == 132
OP_READONLY == 133

defaultMaxFrames == 256

(***************************************************************************)
(* vm.Value: a tagged struct.  k is Kind; n holds Num, or the heap index   *)
(* of Arr / Obj / Func / It; s holds Str or Err; b holds B; ro is          *)
(* ReadOnly.  The flag travels with the Value (a Go struct copy), not      *)
(* with the container it points to.                                        *)
(***************************************************************************)
Value(k, n, s, b, ro) == [k |-> k, n |-> n, s |-> s, b |-> b, ro |-> ro]

Null == Value("null", 0, "", FALSE, FALSE)
Bool(x) == Value("bool", 0, "", x, FALSE)
Number(x) == Value("number", x, "", FALSE, FALSE)
String(x) == Value("string", 0, x, FALSE, FALSE)
Array(id) == Value("array", id, "", FALSE, FALSE)
Object(id) == Value("object", id, "", FALSE, FALSE)
ErrorVal(x) == Value("error", 0, x, FALSE, FALSE)
IteratorVal(id) == Value("iterator", id, "", FALSE, FALSE)
FunctionVal(id) == Value("function", id, "", FALSE, FALSE)

Truthy(v) ==
    CASE v.k = "null" -> FALSE
      [] v.k = "bool" -> v.b
      [] OTHER -> TRUE

\* The default branch compares the addresses of the two parameter copies,
\* which are never the same.
Equal(a, b) ==
    IF a.k # b.k THEN FALSE
    ELSE CASE a.k = "null" -> TRUE
           [] a.k = "bool" -> a.b = b.b
           [] a.k = "number" -> a.n = b.n
           [] a.k = "string" -> a.s = b.s
           [] a.k = "error" -> a.s = b.s
           [] OTHER -> FALSE

(***************************************************************************)
(* The syntax tree (ast package).  A node is a record tagged by t; a nil   *)
(* expression is Nil.                                                      *)
(***************************************************************************)
Nil == [t |-> "nil"]
NumberLiteral(x) == [t |-> "NumberLiteral", Value |-> x]
StringLiteral(x) == [t |-> "StringLiteral", Value |-> x]
BoolLiteral(x) == [t |-> "BoolLiteral", Value |-> x]
NullLiteral == [t |-> "NullLiteral"]
ArrayLiteral(els) == [t |-> "ArrayLiteral", Elements |-> els]
RangeLiteral(a, b) == [t |-> "RangeLiteral", Start |-> a, End |-> b]
ObjectField(k, v) == [Key |-> k, Value |-> v]
ObjectLiteral(fields) == [t |-> "ObjectLiteral", Fields |-> fields]
Identifier(name) == [t |-> "Identifier", Name |-> name]
Variable(name) == [t |-> "Variable", Name |-> name]
UnaryExpr(op, r) == [t |-> "UnaryExpr", Operator |-> op, Right |-> r]
BinaryExpr(l, op, r) == [t |-> "BinaryExpr", Operator |-> op, Left |-> l, Right |-> r]
AssignExpr(l, op, v) == [t |-> "AssignExpr", Operator |-> op, Left |-> l, Value |-> v]
CallExpr(callee, args) == [t |-> "CallExpr", Callee |-> callee, Arguments |-> args]
MemberExpr(l, prop) == [t |-> "MemberExpr", Left |-> l, Property |-> prop]
IndexExpr(l, i) == [t |-> "IndexExpr", Left |-> l, Index |-> i]
FuncExpr(params, body) == [t |-> "FuncExpr", Params |-> params, Body |-> body]

ExprStmt(e) == [t |-> "ExprStmt", Expression |-> e]
ReturnStmt(e) == [t |-> "ReturnStmt", Value |-> e]
ElseIfClause(c, conseq) == [Condition |-> c, Conseq |-> conseq]
IfStmt(c, conseq, elseifs, hasAlt, alt) ==
    [t |-> "IfStmt", Condition |-> c, Conseq |-> conseq, ElseIfs |-> elseifs,
     HasAlt |-> hasAlt, Alt |-> alt]
WhileStmt(c, body) == [t |-> "WhileStmt", Condition |-> c, Body |-> body]
ForStmt(key, valueName, iterable, body) ==
    [t |-> "ForStmt", Key |-> key, ValueName |-> valueName, Iterable |-> iterable,
     Body |-> body]
FuncDecl(name, params, body) ==
    [t |-> "FuncDecl", Name |-> name, Params |-> params, Body |-> body]

(***************************************************************************)
(* The builtin registry (runtime.Register calls of internal/builtins).     *)
(***************************************************************************)
BuiltinNames == {"typeof", "error", "indexExist", "indexRead", "valueExist", "readonly"}

LookupByName(name) ==
    CASE name = "typeof" -> [Opcode |-> OP_TYPEOF, Arity |-> 1]
      [] name = "error" -> [Opcode |-> OP_ERROR, Arity |-> 1]
      [] name = "indexExist" -> [Opcode |-> OP_INDEX_EXIST, Arity |-> 2]
      [] name = "indexRead" -> [Opcode |-> OP_INDEX_READ, Arity |-> 3]
      [] name = "valueExist" -> [Opcode |-> OP_VALUE_EXIST, Arity |-> 2]
      [] name = "readonly" -> [Opcode |-> OP_READONLY, Arity |-> 1]

builtinName(expr) == expr.t = "Identifier" /\ expr.Name \in BuiltinNames

(***************************************************************************)
(* The compiler.  The state threaded through the operators is              *)
(*   fcs       the funcCompilers being built, outermost first: the scope   *)
(*             of fcs[d] encloses in that of fcs[d-1];                     *)
(*   protos    the prototypes finished so far (a *Prototype is an index);  *)
(*   functions the module's Functions map;                                 *)
(*   held      the code offsets and constant indices that the compile      *)
(*             functions in progress hold in local variables, innermost    *)
(*             last;                                                       *)
(*   err       the error returned, "" for nil.  The source returns at the  *)
(*             first error; here every later step leaves an erroneous      *)
(*             state as it is.                                             *)
(***************************************************************************)
EmptyMap == [x \in {} |-> 0]

newScope == [locals |-> EmptyMap, upvalues |-> <<>>, nextLoc |-> 0]

newFuncCompiler == [chunk |-> [Code |-> <<>>, Consts |-> <<>>], scope |-> newScope]

Top(c) == c.fcs[Len(c.fcs)]

Fail(c, msg) == IF c.err = "" THEN [c EXCEPT !.err = msg] ELSE c

\* scope.addLocal, on the innermost scope; the slot given is the old nextLoc.
addLocal(c, name) ==
    IF c.err # "" THEN c
    ELSE [c EXCEPT !.fcs[Len(c.fcs)].scope.locals = (name :> Top(c).scope.nextLoc) @@ @,
                   !.fcs[Len(c.fcs)].scope.nextLoc = (@ + 1) % 256]

HasLocal(c, name) == name \in DOMAIN Top(c).scope.locals
LocalSlot(c, name) == Top(c).scope.locals[name]

ensureLocal(c, name) == IF c.err # "" \/ HasLocal(c, name) THEN c ELSE addLocal(c, name)

\* scope.resolveUpvalue for the scope at depth d: [ok, up, fcs], where up is
\* the descriptor handed back to the caller and fcs carries the appended
\* descriptors.
RECURSIVE resolveUpvalueAt(_, _, _)
appendUpvalue(r, d, up) ==
    [ok |-> TRUE,
     up |-> [IsLocal |-> FALSE, Index |-> Len(r.fcs[d].scope.upvalues) % 256],
     fcs |-> [r.fcs EXCEPT ![d].scope.upvalues = Append(@, up)]]

resolveEnclosing(r, fcs, d) ==
    IF r.ok THEN appendUpvalue(r, d, r.up)
    ELSE [ok |-> FALSE, up |-> r.up, fcs |-> fcs]

resolveUpvalueAt(fcs, d, name) ==
    IF d = 1 THEN [ok |-> FALSE, up |-> [IsLocal |-> FALSE, Index |-> 0], fcs |-> fcs]
    ELSE IF name \in DOMAIN fcs[d - 1].scope.locals
    THEN appendUpvalue([fcs |-> fcs], d,
                       [IsLocal |-> TRUE, Index |-> fcs[d - 1].scope.locals[name]])
    ELSE resolveEnclosing(resolveUpvalueAt(fcs, d - 1, name), fcs, d)

resolveUpvalue(c, name) == resolveUpvalueAt(c.fcs, Len(c.fcs), name)

emitBytes(c, bs) ==
    IF c.err # "" THEN c ELSE [c EXCEPT !.fcs[Len(c.fcs)].chunk.Code = @ \o bs]

emitByte(c, b) == emitBytes(c, <<b>>)

CodeLen(c) == Len(Top(c).chunk.Code)

Hi(x) == (x \div 256) % 256
Lo(x) == x % 256

\* A local variable of the compile function in progress takes the value x.
hold(c, x) == IF c.err # "" THEN c ELSE [c EXCEPT !.held = Append(@, x)]

\* The value held d places below the innermost one, and its release.
Held(c, d) == c.held[Len(c.held) - d]
release(c, d) ==
    [c EXCEPT !.held = SubSeq(@, 1, Len(@) - d - 1) \o SubSeq(@, Len(@) - d + 1, Len(@))]

\* emitJump: the opcode and a two-byte placeholder; the position returned
\* by the source is held.
emitJump(c, op) ==
    IF c.err # "" THEN c ELSE hold(emitBytes(c, <<op, 255, 255>>), CodeLen(c) + 1)

\* A fault for the sensitivity of C39: the operand becomes the offset after
\* the opcode that will be emitted next.
patchJumpPast(c, d) ==
    IF c.err # "" THEN c
    ELSE release([c EXCEPT !.fcs[Len(c.fcs)].chunk.Code[Held(c, d) + 1] = Hi(CodeLen(c) + 1),
                           !.fcs[Len(c.fcs)].chunk.Code[Held(c, d) + 2] = Lo(CodeLen(c) + 1)],
                 d)

\* patchJump of the position held d places down: the operand becomes the
\* current length of the code.
patchJump(c, d) ==
    IF c.err # "" THEN c
    ELSE release([c EXCEPT !.fcs[Len(c.fcs)].chunk.Code[Held(c, d) + 1] = Hi(CodeLen(c)),
                           !.fcs[Len(c.fcs)].chunk.Code[Held(c, d) + 2] = Lo(CodeLen(c))], d)

\* loopStart := len(code)
holdLoopStart(c) == IF c.err # "" THEN c ELSE hold(c, CodeLen(c))

\* emitLoop(loopStart), loopStart being held d places down.
emitLoop(c, d) ==
    IF c.err # "" THEN c
    ELSE release(emitBytes(c, <<OP_JUMP, Hi(Held(c, d)), Lo(Held(c, d))>>), d)

\* addConst; the index returned by the source is LastConst of the result.
addConst(c, v) ==
    IF c.err # "" THEN c ELSE [c EXCEPT !.fcs[Len(c.fcs)].chunk.Consts = Append(@, v)]
LastConst(c) == (Len(Top(c).chunk.Consts) - 1) % 65536

\* An opcode whose operand is the index of a constant added for it.
emitWithConst(c, op, v) ==
    IF c.err # "" THEN c
    ELSE emitBytes(addConst(c, v), <<op, Hi(LastConst(addConst(c, v))),
                                     Lo(LastConst(addConst(c, v)))>>)

emitConst(c, v) == emitWithConst(c, OP_CONST, v)

emitGlobalGet(c, name) == emitWithConst(c, OP_GET_GLOBAL, String(name))

emitGlobalSet(c, name, define) ==
    emitWithConst(c, IF define THEN OP_DEFINE_GLOBAL ELSE OP_SET_GLOBAL, String(name))

emitBuiltin(c, name, argc) ==
    IF name \notin BuiltinNames THEN Fail(c, "unknown builtin")
    ELSE IF argc # LookupByName(name).Arity THEN Fail(c, "builtin arity")
    ELSE emitByte(c, LookupByName(name).Opcode)

lastOp(c) ==
    IF CodeLen(c) = 0 THEN 0 ELSE Top(c).chunk.Code[CodeLen(c)]

BinaryOpcode(op) ==
    CASE op = "+" -> OP_ADD   [] op = "-" -> OP_SUB
      [] op = "*" -> OP_MUL   [] op = "/" -> OP_DIV
      [] op = "==" -> OP_EQ   [] op = "!=" -> OP_NEQ
      [] op = "<" -> OP_LT    [] op = "<=" -> OP_LTE
      [] op = ">" -> OP_GT    [] op = ">=" -> OP_GTE

\* The recursion of the compiler goes through one operator, compileNode,
\* which holds the type switches of compileExpr and compileBlock and the
\* loops over statements, elements, arguments, fields and elseif clauses.
RECURSIVE compileNode(_, _)
RECURSIVE emitUpvalues(_, _)

compileExpr(c, e) == compileNode(c, e)
compileBlock(c, stmts) == compileNode(c, [t |-> "BlockStmt", Statements |-> stmts])
compileExprs(c, es) == compileNode(c, [t |-> "exprs", Items |-> es])
compileFields(c, fields) == compileNode(c, [t |-> "fields", Items |-> fields])
compileElseIfs(c, clauses) == compileNode(c, [t |-> "elseifs", Items |-> clauses])

\* The parameters become the first locals (compileFunction, compilePrototype).
\* The loop calls addLocal for params[i], params[i + 1], ... in turn and
\* fails at the 256th; what it leaves is written out here: each name has
\* the slot of its last occurrence, and nextLoc has moved on by one for
\* each parameter.
addParams(c, params, i) ==
    IF i > Len(params) \/ c.err # "" THEN c
    ELSE LET last == IF Len(params) > 255 THEN 255 ELSE Len(params)
             at(name) == CHOOSE j \in i..last :
                             params[j] = name /\ \A k \in i..last : params[k] = name => k <= j
             slots == [name \in {params[j] : j \in i..last} |->
                          (Top(c).scope.nextLoc + at(name) - i) % 256]
             added == [c EXCEPT !.fcs[Len(c.fcs)].scope.locals = slots @@ @,
                                !.fcs[Len(c.fcs)].scope.nextLoc = (@ + last - i + 1) % 256]
         IN IF Len(params) > 255 THEN Fail(added, "too many parameters") ELSE added

\* The descriptor pairs that follow OP_CLOSURE's three operand bytes.
emitUpvalues(c, ups) ==
    IF ups = <<>> THEN c
    ELSE emitUpvalues(emitBytes(c, <<IF Head(ups).IsLocal THEN 1 ELSE 0, Head(ups).Index>>),
                      Tail(ups))

\* A fault for the sensitivity of the short circuit: both operands are
\* compiled one after the other.
compileLogicalEager(c, e) == compileExpr(emitByte(compileExpr(c, e.Left), OP_POP), e.Right)

compileLogical(c, e) ==
    patchJump(
        compileExpr(
            emitByte(
                emitJump(compileExpr(c, e.Left),
                         IF e.Operator = "&&" THEN OP_JUMP_IF_FALSE ELSE OP_JUMP_IF_TRUE),
                OP_POP),
            e.Right),
        0)

\* The store that ends compileAssign for a variable: local, upvalue or
\* global, tried in this order.
emitStore(c, name, define) ==
    IF c.err # "" THEN c
    ELSE IF HasLocal(c, name) THEN emitBytes(c, <<OP_SET_LOCAL, LocalSlot(c, name)>>)
    ELSE IF resolveUpvalue(c, name).ok
    THEN emitBytes([c EXCEPT !.fcs = resolveUpvalue(c, name).fcs],
                   <<OP_SET_UPVALUE, resolveUpvalue(c, name).up.Index>>)
    ELSE emitGlobalSet(c, name, define)

\* SET_PROP with the constant index held since before the value was compiled.
emitSetProp(c) ==
    IF c.err # "" THEN c
    ELSE release(emitBytes(c, <<OP_SET_PROP, Hi(Held(c, 0)), Lo(Held(c, 0))>>), 0)

holdConst(c, v) == IF c.err # "" THEN c ELSE hold(addConst(c, v), LastConst(addConst(c, v)))

compileAssign(c, e) ==
    CASE e.Left.t = "Variable" ->
           emitStore(compileExpr(IF e.Operator = ":=" THEN ensureLocal(c, e.Left.Name) ELSE c,
                                 e.Value),
                     e.Left.Name, e.Operator = ":=")
      [] e.Left.t = "MemberExpr" ->
           emitSetProp(compileExpr(holdConst(compileExpr(c, e.Left.Left),
                                             String(e.Left.Property)),
                                   e.Value))
      [] e.Left.t = "IndexExpr" ->
           emitByte(compileExprs(c, <<e.Left.Left, e.Left.Index, e.Value>>), OP_INDEX_SET)
      [] OTHER -> Fail(c, "invalid assignment target")

\* The end of compileFunction and of compilePrototype: the implicit
\* `return null`, and the prototype built from the innermost funcCompiler,
\* which is then dropped.
implicitReturn(c, body) ==
    IF Len(body) = 0 \/ lastOp(c) # OP_RETURN
    THEN emitByte(emitByte(c, OP_NULL), OP_RETURN) ELSE c

buildPrototype(c, name, params) ==
    [c EXCEPT !.fcs = SubSeq(@, 1, Len(@) - 1),
              !.protos = Append(@, [Name |-> name, Source |-> c.source,
                                    NumParams |-> Len(params), Chunk |-> Top(c).chunk,
                                    Upvalues |-> Top(c).scope.upvalues,
                                    MaxLocals |-> Top(c).scope.nextLoc])]

finishPrototype(c, name, params, body) ==
    IF c.err # "" THEN c ELSE buildPrototype(implicitReturn(c, body), name, params)

ProtoConst(idx) == [k |-> "proto", n |-> idx, s |-> "", b |-> FALSE, ro |-> FALSE]

addProtoConst(c) == IF c.err # "" THEN c ELSE addConst(c, ProtoConst(Len(c.protos)))

pushFuncCompiler(c) == IF c.err # "" THEN c ELSE [c EXCEPT !.fcs = Append(@, newFuncCompiler)]

\* compilePrototype: the body is compiled by a child funcCompiler whose scope
\* encloses in the current one; the finished prototype goes into the
\* parent's constant pool.  The index and upvalues returned by the source
\* are LastConst and LastUpvalues of the result.
compilePrototype(c, name, params, body) ==
    addProtoConst(
        finishPrototype(compileBlock(addParams(pushFuncCompiler(c), params, 1), body),
                        name, params, body))

LastUpvalues(c) == c.protos[Len(c.protos)].Upvalues

emitClosure(c) ==
    IF c.err # "" THEN c
    ELSE emitUpvalues(emitBytes(c, <<OP_CLOSURE, Hi(LastConst(c)), Lo(LastConst(c)),
                                     Len(LastUpvalues(c)) % 256>>),
                      LastUpvalues(c))

compileFuncExpr(c, fn) == emitClosure(compilePrototype(c, "", fn.Params, fn.Body))

emitSetLocal(c, name) ==
    IF c.err # "" THEN c ELSE emitBytes(c, <<OP_SET_LOCAL, LocalSlot(c, name)>>)

compileNestedFuncDecl(c, fn) ==
    emitSetLocal(ensureLocal(emitClosure(compilePrototype(c, fn.Name, fn.Params, fn.Body)),
                             fn.Name),
                 fn.Name)

\* One elseif clause of compileIf.  jFalse is patched after the clause's
\* jump over, and jOver itself right after the POP that follows.
compileElseIf(c, clause) ==
    patchJump(
        emitByte(
            patchJump(
                emitJump(
                    compileBlock(
                        emitByte(emitJump(compileExpr(c, clause.Condition), OP_JUMP_IF_FALSE),
                                 OP_POP),
                        clause.Conseq),
                    OP_JUMP),
                1),
            OP_POP),
        0)

compileAlternative(c, stmt) == IF stmt.HasAlt THEN compileBlock(c, stmt.Alt) ELSE c

compileIf(c, stmt) ==
    patchJump(
        compileAlternative(
            compileElseIfs(
                emitByte(
                    patchJump(
                        emitJump(
                            compileBlock(
                                emitByte(emitJump(compileExpr(c, stmt.Condition),
                                                  OP_JUMP_IF_FALSE),
                                         OP_POP),
                                stmt.Conseq),
                            OP_JUMP),
                        1),
                    OP_POP),
                stmt.ElseIfs),
            stmt),
        0)

compileWhile(c, stmt) ==
    emitByte(
        patchJump(
            emitLoop(
                compileBlock(
                    emitByte(emitJump(compileExpr(holdLoopStart(c), stmt.Condition),
                                      OP_JUMP_IF_FALSE),
                             OP_POP),
                    stmt.Body),
                1),
            0),
        OP_POP)

\* The SET_LOCALs that bind the loop variables at the top of each turn.
emitLoopVars(c, stmt) ==
    IF c.err # "" THEN c
    ELSE IF stmt.Key # ""
    THEN emitBytes(c, <<OP_SET_LOCAL, LocalSlot(c, stmt.ValueName),
                        OP_SET_LOCAL, LocalSlot(c, stmt.Key)>>)
    ELSE emitBytes(c, <<OP_SET_LOCAL, LocalSlot(c, stmt.ValueName), OP_POP>>)

ensureLoopVars(c, stmt) ==
    IF stmt.Key # "" THEN ensureLocal(ensureLocal(c, stmt.Key), stmt.ValueName)
    ELSE ensureLocal(c, stmt.ValueName)

compileForIn(c, stmt) ==
    emitByte(
        patchJump(
            emitLoop(
                compileBlock(
                    emitLoopVars(
                        ensureLoopVars(
                            emitJump(
                                holdLoopStart(emitByte(compileExpr(c, stmt.Iterable),
                                                       OP_ITER_PREP)),
                                OP_ITER_NEXT),
                            stmt),
                        stmt),
                    stmt.Body),
                1),
            0),
        OP_POP)

compileVariable(c, e) ==
    IF HasLocal(c, e.Name) THEN emitBytes(c, <<OP_GET_LOCAL, LocalSlot(c, e.Name)>>)
    ELSE IF resolveUpvalue(c, e.Name).ok
    THEN emitBytes([c EXCEPT !.fcs = resolveUpvalue(c, e.Name).fcs],
                   <<OP_GET_UPVALUE, resolveUpvalue(c, e.Name).up.Index>>)
    ELSE emitGlobalGet(c, e.Name)

compileCall(c, e) ==
    IF builtinName(e.Callee)
    THEN emitBuiltin(compileExprs(c, e.Arguments), e.Callee.Name, Len(e.Arguments))
    ELSE emitBytes(compileExprs(compileExpr(c, e.Callee), e.Arguments),
                   <<OP_CALL, Len(e.Arguments) % 256>>)

compileUnary(c, op) ==
    CASE op = "-" -> emitByte(c, OP_NEG)
      [] op = "!" -> emitByte(c, OP_NOT)
      [] op = "+" -> c
      [] OTHER -> Fail(c, "unsupported unary op")

compileBinary(c, op) ==
    IF op \in {"+", "-", "*", "/", "==", "!=", "<", "<=", ">", ">="}
    THEN emitByte(c, BinaryOpcode(op))
    ELSE Fail(c, "unsupported binary op")

compileNode(c, e) ==
    IF c.err # "" THEN c
    ELSE CASE e.t = "BlockStmt" ->
                IF e.Statements = <<>> THEN c
                ELSE compileBlock(compileNode(c, Head(e.Statements)), Tail(e.Statements))
           [] e.t = "exprs" ->
                IF e.Items = <<>> THEN c
                ELSE compileExprs(compileExpr(c, Head(e.Items)), Tail(e.Items))
           [] e.t = "fields" ->
                IF e.Items = <<>> THEN c
                ELSE compileFields(compileExpr(emitConst(c, String(Head(e.Items).Key)),
                                               Head(e.Items).Value), Tail(e.Items))
           [] e.t = "elseifs" ->
                IF e.Items = <<>> THEN c
                ELSE compileElseIfs(compileElseIf(c, Head(e.Items)), Tail(e.Items))
           [] e.t = "ExprStmt" ->
                IF e.Expression.t = "AssignExpr" THEN compileExpr(c, e.Expression)
                ELSE emitByte(compileExpr(c, e.Expression), OP_POP)
           [] e.t = "ReturnStmt" ->
                emitByte(IF e.Value.t # "nil" THEN compileExpr(c, e.Value)
                         ELSE emitByte(c, OP_NULL),
                         OP_RETURN)
           [] e.t = "IfStmt" -> compileIf(c, e)
           [] e.t = "WhileStmt" -> compileWhile(c, e)
           [] e.t = "ForStmt" -> compileForIn(c, e)
           [] e.t = "FuncDecl" -> compileNestedFuncDecl(c, e)
           [] e.t = "NumberLiteral" -> emitConst(c, Number(e.Value))
           [] e.t = "StringLiteral" -> emitConst(c, String(e.Value))
           [] e.t = "BoolLiteral" -> emitByte(c, IF e.Value THEN OP_TRUE ELSE OP_FALSE)
           [] e.t = "NullLiteral" -> emitByte(c, OP_NULL)
           [] e.t = "ArrayLiteral" ->
                emitBytes(compileExprs(c, e.Elements),
                          <<OP_ARRAY, Hi(Len(e.Elements)), Lo(Len(e.Elements))>>)
           [] e.t = "RangeLiteral" -> emitByte(compileExprs(c, <<e.Start, e.End>>), OP_RANGE)
           [] e.t = "ObjectLiteral" ->
                emitBytes(compileFields(c, e.Fields),
                          <<OP_OBJECT, Hi(Len(e.Fields)), Lo(Len(e.Fields))>>)
           [] e.t = "Identifier" -> emitGlobalGet(c, e.Name)
           [] e.t = "Variable" -> compileVariable(c, e)
           [] e.t = "UnaryExpr" -> compileUnary(compileExpr(c, e.Right), e.Operator)
           [] e.t = "BinaryExpr" ->
                IF e.Operator \in {"&&", "||"} THEN compileLogical(c, e)
                ELSE compileBinary(compileExprs(c, <<e.Left, e.Right>>), e.Operator)
           [] e.t = "AssignExpr" -> compileAssign(c, e)
           [] e.t = "CallExpr" -> compileCall(c, e)
           [] e.t = "MemberExpr" ->
                emitWithConst(compileExpr(c, e.Left), OP_GET_PROP, String(e.Property))
           [] e.t = "IndexExpr" -> emitByte(compileExprs(c, <<e.Left, e.Index>>), OP_INDEX_GET)
           [] e.t = "FuncExpr" -> compileFuncExpr(c, e)
           [] OTHER -> Fail(c, "unsupported node type")

\* compiler.compileFunction for a top-level declaration, with Compile's
\* `c.module.Functions[fn.Name] = proto`: the function is compiled in a
\* scope without an enclosing one.
registerFunction(c, fn) ==
    IF c.err # "" THEN c
    ELSE [c EXCEPT !.functions = (fn.Name :> Len(c.protos)) @@ @]

compileFunction(c, fn) ==
    registerFunction(
        finishPrototype(
            compileBlock(addParams([c EXCEPT !.fcs = <<newFuncCompiler>>], fn.Params, 1),
                         fn.Body),
            fn.Name, fn.Params, fn.Body),
        fn)

\* compiler.Compile: [Functions, protos, err]; Functions maps each declared
\* name to (the index in protos of) its prototype.
RECURSIVE CompileFrom(_, _)
CompileFrom(c, stmts) ==
    IF c.err # "" THEN [Functions |-> EmptyMap, protos |-> <<>>, err |-> c.err]
    ELSE IF stmts = <<>> THEN [Functions |-> c.functions, protos |-> c.protos, err |-> ""]
    ELSE IF Head(stmts).t # "FuncDecl"
    THEN [Functions |-> EmptyMap, protos |-> <<>>,
          err |-> "top-level statements other than func are not supported"]
    ELSE CompileFrom(compileFunction(c, Head(stmts)), Tail(stmts))

Compile(prog, source) ==
    CompileFrom([fcs |-> <<>>, protos |-> <<>>, functions |-> EmptyMap, held |-> <<>>,
                 err |-> "", source |-> source], prog)

(***************************************************************************)
(* The scripts loaded into the VM, as the syntax trees of their function   *)
(* declarations, with the source text of each above it.  mark and cond are *)
(* native functions of the host: mark(k) records k; cond(k, v) records k   *)
(* and returns v, so that the order of evaluation can be observed.         *)
(***************************************************************************)
Mark(e) == ExprStmt(CallExpr(Identifier("mark"), <<e>>))
Cond(k, e) == CallExpr(Identifier("cond"), <<NumberLiteral(k), e>>)
Let(name, e) == ExprStmt(AssignExpr(Variable(name), ":=", e))

\* func chain($a, $b) {
\*   if (cond(1, $a)) { mark(11) } elseif (cond(2, $b)) { mark(12) } else { mark(13) }
\*   mark(9)
\* }
\* func chain3($a, $b, $c) {
\*   if (cond(1, $a)) { mark(11) } elseif (cond(2, $b)) { mark(12) }
\*   elseif (cond(3, $c)) { mark(13) }
\*   mark(9)
\* }
\* func land($a, $b) { return cond(1, $a) && cond(2, $b) }
\* func lor($a, $b) { return cond(1, $a) || cond(2, $b) }
ProgramBranches ==
    << FuncDecl("chain", <<"a", "b">>,
         << IfStmt(Cond(1, Variable("a")), <<Mark(NumberLiteral(11))>>,
                   <<ElseIfClause(Cond(2, Variable("b")), <<Mark(NumberLiteral(12))>>)>>,
                   TRUE, <<Mark(NumberLiteral(13))>>),
            Mark(NumberLiteral(9)) >>),
       FuncDecl("chain3", <<"a", "b", "c">>,
         << IfStmt(Cond(1, Variable("a")), <<Mark(NumberLiteral(11))>>,
                   <<ElseIfClause(Cond(2, Variable("b")), <<Mark(NumberLiteral(12))>>),
                     ElseIfClause(Cond(3, Variable("c")), <<Mark(NumberLiteral(13))>>)>>,
                   FALSE, <<>>),
            Mark(NumberLiteral(9)) >>),
       FuncDecl("land", <<"a", "b">>,
         << ReturnStmt(BinaryExpr(Cond(1, Variable("a")), "&&", Cond(2, Variable("b")))) >>),
       FuncDecl("lor", <<"a", "b">>,
         << ReturnStmt(BinaryExpr(Cond(1, Variable("a")), "||", Cond(2, Variable("b")))) >>) >>

\* func loop($xs) { for ($v in $xs) { mark($v) } mark(9) }
\* func loopPair($xs) { for ($k, $v in $xs) { mark($k) mark($v) } mark(9) }
\* func loopNest($xs) { for ($v in $xs) { for ($w in $xs) { mark($w) } } mark(9) }
\* func loopIf($xs) { for ($v in $xs) { if ($v) { mark($v) } } mark(9) }
\* func loopAnd($xs) { for ($v in $xs) { $v && mark($v) } mark(9) }
ProgramLoops ==
    << FuncDecl("loop", <<"xs">>,
         << ForStmt("", "v", Variable("xs"), <<Mark(Variable("v"))>>),
            Mark(NumberLiteral(9)) >>),
       FuncDecl("loopPair", <<"xs">>,
         << ForStmt("k", "v", Variable("xs"), <<Mark(Variable("k")), Mark(Variable("v"))>>),
            Mark(NumberLiteral(9)) >>),
       FuncDecl("loopNest", <<"xs">>,
         << ForStmt("", "v", Variable("xs"),
                    <<ForStmt("", "w", Variable("xs"), <<Mark(Variable("w"))>>)>>),
            Mark(NumberLiteral(9)) >>),
       FuncDecl("loopIf", <<"xs">>,
         << ForStmt("", "v", Variable("xs"),
                    <<IfStmt(Variable("v"), <<Mark(Variable("v"))>>, <<>>, FALSE, <<>>)>>),
            Mark(NumberLiteral(9)) >>),
       FuncDecl("loopAnd", <<"xs">>,
         << ForStmt("", "v", Variable("xs"),
                    <<ExprStmt(BinaryExpr(Variable("v"), "&&",
                                          CallExpr(Identifier("mark"), <<Variable("v")>>)))>>),
            Mark(NumberLiteral(9)) >>) >>

\* func mk() {
\*   $x := 0
\*   $inc := func() { $x = $x + 1  return $x }
\*   $get := func() { return $x }
\*   $inc()
\*   mark($x)
\*   $x = 5
\*   mark($get())
\*   return [$inc, $get]
\* }
\* func share() {
\*   $p := mk()
\*   $f := $p[0]
\*   $g := $p[1]
\*   mark($f())
\*   mark($g())
\*   return $g()
\* }
\* func thrower($f) { return $f() + null }
\* func deep() { $x := 1  $f := func() { return $x }  return mark(thrower($f)) }
ProgramClosures ==
    << FuncDecl("mk", <<>>,
         << Let("x", NumberLiteral(0)),
            Let("inc", FuncExpr(<<>>,
                   << ExprStmt(AssignExpr(Variable("x"), "=",
                                          BinaryExpr(Variable("x"), "+", NumberLiteral(1)))),
                      ReturnStmt(Variable("x")) >>)),
            Let("get", FuncExpr(<<>>, <<ReturnStmt(Variable("x"))>>)),
            ExprStmt(CallExpr(Variable("inc"), <<>>)),
            Mark(Variable("x")),
            ExprStmt(AssignExpr(Variable("x"), "=", NumberLiteral(5))),
            Mark(CallExpr(Variable("get"), <<>>)),
            ReturnStmt(ArrayLiteral(<<Variable("inc"), Variable("get")>>)) >>),
       FuncDecl("share", <<>>,
         << Let("p", CallExpr(Identifier("mk"), <<>>)),
            Let("f", IndexExpr(Variable("p"), NumberLiteral(0))),
            Let("g", IndexExpr(Variable("p"), NumberLiteral(1))),
            Mark(CallExpr(Variable("f"), <<>>)),
            Mark(CallExpr(Variable("g"), <<>>)),
            ReturnStmt(CallExpr(Variable("g"), <<>>)) >>),
       FuncDecl("thrower", <<"f">>,
         << ReturnStmt(BinaryExpr(CallExpr(Variable("f"), <<>>), "+", NullLiteral)) >>),
       FuncDecl("deep", <<>>,
         << Let("x", NumberLiteral(1)),
            Let("f", FuncExpr(<<>>, <<ReturnStmt(Variable("x"))>>)),
            ReturnStmt(CallExpr(Identifier("mark"),
                                <<CallExpr(Identifier("thrower"), <<Variable("f")>>)>>)) >>) >>

\* func setIdx($a) { $a[0] = 9 }
\* func setKey($o) { $o["x"] = 9 }
\* func setProp($o) { $o.x = 9 }
\* func setNested($a) { $a[1][0] = 9 }
\* func probe($a) {
\*   mark(typeof($a))  mark(readonly($a))  mark(indexExist($a, 0))
\*   mark(indexRead($a, 7, 3))  mark(valueExist($a, 1))
\* }
\* func bad($a) { return $a[5] }
\* func add($a, $b) { return $a + $b }
\* func rec() { return rec() }
\* func spin() { while (true) { } }
ProgramContainers ==
    << FuncDecl("setIdx", <<"a">>,
         << ExprStmt(AssignExpr(IndexExpr(Variable("a"), NumberLiteral(0)), "=",
                                NumberLiteral(9))) >>),
       FuncDecl("setKey", <<"o">>,
         << ExprStmt(AssignExpr(IndexExpr(Variable("o"), StringLiteral("x")), "=",
                                NumberLiteral(9))) >>),
       FuncDecl("setProp", <<"o">>,
         << ExprStmt(AssignExpr(MemberExpr(Variable("o"), "x"), "=", NumberLiteral(9))) >>),
       FuncDecl("setNested", <<"a">>,
         << ExprStmt(AssignExpr(IndexExpr(IndexExpr(Variable("a"), NumberLiteral(1)),
                                          NumberLiteral(0)), "=", NumberLiteral(9))) >>),
       FuncDecl("probe", <<"a">>,
         << Mark(CallExpr(Identifier("typeof"), <<Variable("a")>>)),
            Mark(CallExpr(Identifier("readonly"), <<Variable("a")>>)),
            Mark(CallExpr(Identifier("indexExist"), <<Variable("a"), NumberLiteral(0)>>)),
            Mark(CallExpr(Identifier("indexRead"),
                          <<Variable("a"), NumberLiteral(7), NumberLiteral(3)>>)),
            Mark(CallExpr(Identifier("valueExist"), <<Variable("a"), NumberLiteral(1)>>)) >>),
       FuncDecl("bad", <<"a">>,
         << ReturnStmt(IndexExpr(Variable("a"), NumberLiteral(5))) >>),
       FuncDecl("add", <<"a", "b">>,
         << ReturnStmt(BinaryExpr(Variable("a"), "+", Variable("b"))) >>),
       FuncDecl("rec", <<>>,
         << ReturnStmt(CallExpr(Identifier("rec"), <<>>)) >>),
       FuncDecl("spin", <<>>,
         << WhileStmt(BoolLiteral(TRUE), <<>>) >>) >>

\* fail and apply are native functions of the host as well: fail() returns
\* a Go error, apply($f) calls $f back on the same VM and returns its value.
\*
\* func nested() { $g := func() { return 5 }  $r := apply($g)  mark($r)  return $r + 1 }
\* func nestedFail() { $g := func() { return null + 1 }  mark(apply($g))  return 8 }
\* func nestedTwice() {
\*   $g := func() { return 5 }
\*   $h := func() { return apply($g) + 1 }
\*   return apply($h) + 2
\* }
\* func nestedNative() { mark(apply(mark))  return 4 }
\* func applyBad() { return apply(3) }
\* func raise() { mark(1)  fail()  mark(2) }
\* func raiseDeep() { $f := func() { return fail() }  return $f() }
ProgramNested ==
    << FuncDecl("nested", <<>>,
         << Let("g", FuncExpr(<<>>, <<ReturnStmt(NumberLiteral(5))>>)),
            Let("r", CallExpr(Identifier("apply"), <<Variable("g")>>)),
            Mark(Variable("r")),
            ReturnStmt(BinaryExpr(Variable("r"), "+", NumberLiteral(1))) >>),
       FuncDecl("nestedFail", <<>>,
         << Let("g", FuncExpr(<<>>,
                   <<ReturnStmt(BinaryExpr(NullLiteral, "+", NumberLiteral(1)))>>)),
            Mark(CallExpr(Identifier("apply"), <<Variable("g")>>)),
            ReturnStmt(NumberLiteral(8)) >>),
       FuncDecl("nestedTwice", <<>>,
         << Let("g", FuncExpr(<<>>, <<ReturnStmt(NumberLiteral(5))>>)),
            Let("h", FuncExpr(<<>>,
                   <<ReturnStmt(BinaryExpr(CallExpr(Identifier("apply"), <<Variable("g")>>),
                                           "+", NumberLiteral(1)))>>)),
            ReturnStmt(BinaryExpr(CallExpr(Identifier("apply"), <<Variable("h")>>),
                                  "+", NumberLiteral(2))) >>),
       FuncDecl("nestedNative", <<>>,
         << Mark(CallExpr(Identifier("apply"), <<Identifier("mark")>>)),
            ReturnStmt(NumberLiteral(4)) >>),
       FuncDecl("applyBad", <<>>,
         << ReturnStmt(CallExpr(Identifier("apply"), <<NumberLiteral(3)>>)) >>),
       FuncDecl("raise", <<>>,
         << Mark(NumberLiteral(1)),
            ExprStmt(CallExpr(Identifier("fail"), <<>>)),
            Mark(NumberLiteral(2)) >>),
       FuncDecl("raiseDeep", <<>>,
         << Let("f", FuncExpr(<<>>, <<ReturnStmt(CallExpr(Identifier("fail"), <<>>))>>)),
            ReturnStmt(CallExpr(Variable("f"), <<>>)) >>) >>

\* func keys2() {
\*   $o := {}  $o["a"] = 1  $o["b"] = 2
\*   for ($k, $v in $o) { mark($k) }
\*   for ($k, $v in $o) { mark($k) }
\*   mark(9)
\* }
\* func grow() {
\*   $o := {a: 1, b: 2}
\*   for ($k, $v in $o) { mark($k)  $o["c"] = 3 }
\*   mark(indexExist($o, "c"))
\* }
\* func once($xs) {
\*   $it := iter($xs)
\*   for ($v in $it) { mark($v) }
\*   for ($v in $it) { mark($v) }
\*   mark(9)
\* }
\* func same($a) { return $a == $a }
\* func eq($a, $b) { return $a == $b }
\* func eqErr($s, $t) { return error($s) == error($t) }
\* func sameFn() { $f := func() { return 1 }  return $f == $f }
ProgramObjects ==
    << FuncDecl("keys2", <<>>,
         << Let("o", ObjectLiteral(<<>>)),
            ExprStmt(AssignExpr(IndexExpr(Variable("o"), StringLiteral("a")), "=",
                                NumberLiteral(1))),
            ExprStmt(AssignExpr(IndexExpr(Variable("o"), StringLiteral("b")), "=",
                                NumberLiteral(2))),
            ForStmt("k", "v", Variable("o"), <<Mark(Variable("k"))>>),
            ForStmt("k", "v", Variable("o"), <<Mark(Variable("k"))>>),
            Mark(NumberLiteral(9)) >>),
       FuncDecl("grow", <<>>,
         << Let("o", ObjectLiteral(<<ObjectField("a", NumberLiteral(1)),
                                     ObjectField("b", NumberLiteral(2))>>)),
            ForStmt("k", "v", Variable("o"),
                    << Mark(Variable("k")),
                       ExprStmt(AssignExpr(IndexExpr(Variable("o"), StringLiteral("c")), "=",
                                           NumberLiteral(3))) >>),
            Mark(CallExpr(Identifier("indexExist"), <<Variable("o"), StringLiteral("c")>>)) >>),
       FuncDecl("once", <<"xs">>,
         << Let("it", CallExpr(Identifier("iter"), <<Variable("xs")>>)),
            ForStmt("", "v", Variable("it"), <<Mark(Variable("v"))>>),
            ForStmt("", "v", Variable("it"), <<Mark(Variable("v"))>>),
            Mark(NumberLiteral(9)) >>),
       FuncDecl("same", <<"a">>,
         << ReturnStmt(BinaryExpr(Variable("a"), "==", Variable("a"))) >>),
       FuncDecl("eq", <<"a", "b">>,
         << ReturnStmt(BinaryExpr(Variable("a"), "==", Variable("b"))) >>),
       FuncDecl("eqErr", <<"s", "t">>,
         << ReturnStmt(BinaryExpr(CallExpr(Identifier("error"), <<Variable("s")>>), "==",
                                  CallExpr(Identifier("error"), <<Variable("t")>>))) >>),
       FuncDecl("sameFn", <<>>,
         << Let("f", FuncExpr(<<>>, <<ReturnStmt(NumberLiteral(1))>>)),
            ReturnStmt(BinaryExpr(Variable("f"), "==", Variable("f"))) >>) >>

\* func build() {
\*   $ga = [1, 2]   $gb = $ga
\*   $go = { x: $ga }   $go.me = $go
\*   $e1 = []   $e2 = []
\*   $n := 0
\*   $inc = func() { $n = $n + 1  return $n }
\*   $get = func() { return $n }
\* }
\* func buildOpen() {
\*   $m := 7
\*   $peek = func() { return $m }
\*   $put = func() { $m = 8 }
\*   return $m + null
\* }
\* func poke() { $ga[0] = 9  $go.y = 3  $gb = null  inc() }
\* func pokeOpen() { put()  return peek() }
ProgramDuplicate ==
    << FuncDecl("build", <<>>,
         << ExprStmt(AssignExpr(Variable("ga"), "=",
                                ArrayLiteral(<<NumberLiteral(1), NumberLiteral(2)>>))),
            ExprStmt(AssignExpr(Variable("gb"), "=", Variable("ga"))),
            ExprStmt(AssignExpr(Variable("go"), "=",
                                ObjectLiteral(<<ObjectField("x", Variable("ga"))>>))),
            ExprStmt(AssignExpr(MemberExpr(Variable("go"), "me"), "=", Variable("go"))),
            ExprStmt(AssignExpr(Variable("e1"), "=", ArrayLiteral(<<>>))),
            ExprStmt(AssignExpr(Variable("e2"), "=", ArrayLiteral(<<>>))),
            Let("n", NumberLiteral(0)),
            ExprStmt(AssignExpr(Variable("inc"), "=", FuncExpr(<<>>,
                   << ExprStmt(AssignExpr(Variable("n"), "=",
                                          BinaryExpr(Variable("n"), "+", NumberLiteral(1)))),
                      ReturnStmt(Variable("n")) >>))),
            ExprStmt(AssignExpr(Variable("get"), "=",
                                FuncExpr(<<>>, <<ReturnStmt(Variable("n"))>>))) >>),
       FuncDecl("buildOpen", <<>>,
         << Let("m", NumberLiteral(7)),
            ExprStmt(AssignExpr(Variable("peek"), "=",
                                FuncExpr(<<>>, <<ReturnStmt(Variable("m"))>>))),
            ExprStmt(AssignExpr(Variable("put"), "=", FuncExpr(<<>>,
                   << ExprStmt(AssignExpr(Variable("m"), "=", NumberLiteral(8))) >>))),
            ReturnStmt(BinaryExpr(Variable("m"), "+", NullLiteral)) >>),
       FuncDecl("poke", <<>>,
         << ExprStmt(AssignExpr(IndexExpr(Variable("ga"), NumberLiteral(0)), "=",
                                NumberLiteral(9))),
            ExprStmt(AssignExpr(MemberExpr(Variable("go"), "y"), "=", NumberLiteral(3))),
            ExprStmt(AssignExpr(Variable("gb"), "=", NullLiteral)),
            ExprStmt(CallExpr(Identifier("inc"), <<>>)) >>),
       FuncDecl("pokeOpen", <<>>,
         << ExprStmt(CallExpr(Identifier("put"), <<>>)),
            ReturnStmt(CallExpr(Identifier("peek"), <<>>)) >>) >>

\* func shorts($a) {
\*   $s := 0
\*   $a && ($s = $s + 1)
\*   $a || ($s = $s + 2)
\*   return $s
\* }
ProgramLogic ==
    << FuncDecl("shorts", <<"a">>,
         << Let("s", NumberLiteral(0)),
            ExprStmt(BinaryExpr(Variable("a"), "&&",
                                AssignExpr(Variable("s"), "=",
                                           BinaryExpr(Variable("s"), "+", NumberLiteral(1))))),
            ExprStmt(BinaryExpr(Variable("a"), "||",
                                AssignExpr(Variable("s"), "=",
                                           BinaryExpr(Variable("s"), "+", NumberLiteral(2))))),
            ReturnStmt(Variable("s")) >>) >>

\* func extra($a) {
\*   if ($a) { $t := 1 }
\*   return $t
\* }
\* func callExtra() { return extra(false, 7) }
\* func pick($a) {
\*   $n := 5
\*   $seen = func() { return $n }
\*   if ($a) { mark(1) } else { return 2 }
\* }
\* func callPick() { $r := pick(true)  mark($r)  return seen() }
\* func at($a, $i) { return $a[$i] }
\* func put($a, $i) { $a[$i] = 9 }
\* func read($t, $i) { return indexRead($t, $i, "def") }
\* func has($t, $i) { return indexExist($t, $i) }
\* func holds($t, $v) { return valueExist($t, $v) }
\* func cut($a) { if ($a) { }  return 2 }
\* func sum($a) { return 1 + cut($a) }
\* func pair($a) { return add(1, cut($a)) }
\* func inner() { $y := 2  $h := func() { return $y }  return $h }
\* func outer() {
\*   $x := 1
\*   $f := func() { return $x }
\*   $g := inner()
\*   $x = 3
\*   return $f() + $g()
\* }
ProgramCalls ==
    << FuncDecl("extra", <<"a">>,
         << IfStmt(Variable("a"), <<Let("t", NumberLiteral(1))>>, <<>>, FALSE, <<>>),
            ReturnStmt(Variable("t")) >>),
       FuncDecl("callExtra", <<>>,
         << ReturnStmt(CallExpr(Identifier("extra"),
                                <<BoolLiteral(FALSE), NumberLiteral(7)>>)) >>),
       FuncDecl("pick", <<"a">>,
         << Let("n", NumberLiteral(5)),
            ExprStmt(AssignExpr(Variable("seen"), "=",
                                FuncExpr(<<>>, <<ReturnStmt(Variable("n"))>>))),
            IfStmt(Variable("a"), <<Mark(NumberLiteral(1))>>, <<>>,
                   TRUE, <<ReturnStmt(NumberLiteral(2))>>) >>),
       FuncDecl("callPick", <<>>,
         << Let("r", CallExpr(Identifier("pick"), <<BoolLiteral(TRUE)>>)),
            Mark(Variable("r")),
            ReturnStmt(CallExpr(Identifier("seen"), <<>>)) >>),
       FuncDecl("at", <<"a", "i">>,
         << ReturnStmt(IndexExpr(Variable("a"), Variable("i"))) >>),
       FuncDecl("put", <<"a", "i">>,
         << ExprStmt(AssignExpr(IndexExpr(Variable("a"), Variable("i")), "=",
                                NumberLiteral(9))) >>),
       FuncDecl("read", <<"t", "i">>,
         << ReturnStmt(CallExpr(Identifier("indexRead"),
                                <<Variable("t"), Variable("i"), StringLiteral("def")>>)) >>),
       FuncDecl("has", <<"t", "i">>,
         << ReturnStmt(CallExpr(Identifier("indexExist"),
                                <<Variable("t"), Variable("i")>>)) >>),
       FuncDecl("holds", <<"t", "v">>,
         << ReturnStmt(CallExpr(Identifier("valueExist"),
                                <<Variable("t"), Variable("v")>>)) >>),
       FuncDecl("cut", <<"a">>,
         << IfStmt(Variable("a"), <<>>, <<>>, FALSE, <<>>),
            ReturnStmt(NumberLiteral(2)) >>),
       FuncDecl("sum", <<"a">>,
         << ReturnStmt(BinaryExpr(NumberLiteral(1), "+",
                                  CallExpr(Identifier("cut"), <<Variable("a")>>))) >>),
       FuncDecl("pair", <<"a">>,
         << ReturnStmt(CallExpr(Identifier("add"),
                                <<NumberLiteral(1),
                                  CallExpr(Identifier("cut"), <<Variable("a")>>)>>)) >>),
       FuncDecl("inner", <<>>,
         << Let("y", NumberLiteral(2)),
            Let("h", FuncExpr(<<>>, <<ReturnStmt(Variable("y"))>>)),
            ReturnStmt(Variable("h")) >>),
       FuncDecl("outer", <<>>,
         << Let("x", NumberLiteral(1)),
            Let("f", FuncExpr(<<>>, <<ReturnStmt(Variable("x"))>>)),
            Let("g", CallExpr(Identifier("inner"), <<>>)),
            ExprStmt(AssignExpr(Variable("x"), "=", NumberLiteral(3))),
            ReturnStmt(BinaryExpr(CallExpr(Variable("f"), <<>>), "+",
                                  CallExpr(Variable("g"), <<>>))) >>) >>

Program ==
    ProgramBranches \o ProgramLoops \o ProgramClosures \o ProgramContainers
    \o ProgramNested \o ProgramObjects
    \o ProgramDuplicate \o ProgramLogic \o ProgramCalls

\* compiler.Compile(prog, "") as LoadSource runs it.
Module == Compile(Program, "")

(***************************************************************************)
(* The interpreter (vm package).  The operators below thread a machine     *)
(* record m: the fields of vm.VM (stack, frames, globals, openUpvalues,    *)
(* maxFrames, instLimit, instCount), the heap sequences (arrs, objs,       *)
(* funcs, cells, locals, iters), the host's log, and out, the outcome of   *)
(* Run so far: st is "run" while the dispatch loop goes on, "done" after   *)
(* `return ret, nil` and "error" after a return with a non-nil error.      *)
(*                                                                         *)
(* vm.stack is a Go slice: stale holds the backing array's elements past   *)
(* len(vm.stack), nearest first, since re-slicing upwards exposes them.    *)
(***************************************************************************)
Digit(d) ==
    CASE d = 0 -> "0" [] d = 1 -> "1" [] d = 2 -> "2" [] d = 3 -> "3" [] d = 4 -> "4"
      [] d = 5 -> "5" [] d = 6 -> "6" [] d = 7 -> "7" [] d = 8 -> "8" [] d = 9 -> "9"

RECURSIVE stringIndex(_)
stringIndex(i) ==
    IF i < 0 THEN "-" \o stringIndex(-i)
    ELSE IF i < 10 THEN Digit(i)
    ELSE stringIndex(i \div 10) \o Digit(i % 10)

NoFrameInfo == [Function |-> "", IP |-> 0]
\* Cause is the text of the wrapped Go error, "" for a nil Cause.
NoError == [Message |-> "", Frame |-> NoFrameInfo, Stack |-> <<>>, Cause |-> ""]
Running == [st |-> "run", val |-> Null, err |-> NoError]

currentFrame(m) == m.frames[Len(m.frames)]
FrameFn(m) == m.funcs[currentFrame(m).fn]
FrameProto(m) == m.protos[FrameFn(m).Proto]
FrameCode(m) == FrameProto(m).Chunk.Code
FrameConsts(m) == FrameProto(m).Chunk.Consts
FrameLocals(m) == m.locals[currentFrame(m).locals]

push(m, v) ==
    [m EXCEPT !.stack = Append(@, v), !.stale = IF @ = <<>> THEN @ ELSE Tail(@)]

peek(m) == IF Len(m.stack) = 0 THEN Null ELSE m.stack[Len(m.stack)]

\* The value popped is peek(m).
pop(m) ==
    IF Len(m.stack) = 0 THEN m
    ELSE [m EXCEPT !.stack = SubSeq(@, 1, Len(@) - 1), !.stale = <<peek(m)>> \o @]

\* vm.stack = vm.stack[:n]
reslice(m, n) ==
    IF n <= Len(m.stack)
    THEN [m EXCEPT !.stack = SubSeq(@, 1, n),
                   !.stale = SubSeq(m.stack, n + 1, Len(m.stack)) \o @]
    ELSE [m EXCEPT !.stack = @ \o SubSeq(m.stale, 1, n - Len(@)),
                   !.stale = SubSeq(@, n - Len(m.stack) + 1, Len(@))]

\* The values of n successive pops, first popped last.
RECURSIVE popped(_, _)
popped(m, n) == IF n = 0 THEN <<>> ELSE Append(popped(pop(m), n - 1), peek(m))

RECURSIVE popN(_, _)
popN(m, n) == IF n = 0 THEN m ELSE popN(pop(m), n - 1)

readU8(m) == FrameCode(m)[currentFrame(m).ip + 1]
readU16(m) == FrameCode(m)[currentFrame(m).ip + 1] * 256 + FrameCode(m)[currentFrame(m).ip + 2]
advance(m, k) == [m EXCEPT !.frames[Len(m.frames)].ip = @ + k]
jumpTo(m, off) == [m EXCEPT !.frames[Len(m.frames)].ip = off]

offsetForFrame(fr) == IF fr.lastOp >= 0 THEN fr.lastOp ELSE fr.ip

frameInfo(m, fr, offset) == [Function |-> m.funcs[fr.fn].Name, IP |-> offset]

\* stackTrace: innermost first; cur is the index of the frame the error is
\* raised for (0 for nil), whose entry carries offsetForFrame.
stackTrace(m, cur) ==
    [i \in 1..Len(m.frames) |->
        LET j == Len(m.frames) + 1 - i
            fr == m.frames[j]
        IN frameInfo(m, fr, IF j = cur /\ offsetForFrame(fr) >= 0
                            THEN offsetForFrame(fr) ELSE fr.lastOp)]

newRuntimeError(m, cur, msg, cause) ==
    [Message |-> msg,
     Frame |-> IF cur = 0 THEN NoFrameInfo
               ELSE frameInfo(m, m.frames[cur], offsetForFrame(m.frames[cur])),
     Stack |-> stackTrace(m, cur),
     Cause |-> cause]

\* RuntimeError.Error(); sources are unnamed and line tables are left out,
\* so the location is the function's name alone.
ErrorString(e) ==
    IF e.Frame.Function # "" THEN "in " \o e.Frame.Function \o ": " \o e.Message
    ELSE e.Message

\* errorf / wrapError for the executing frame (hasFrame) or for nil: the
\* call returns, and nothing of the machine is unwound.
errorf(m, hasFrame, msg) ==
    LET e == newRuntimeError(m, IF hasFrame THEN Len(m.frames) ELSE 0, msg, "")
    IN [m EXCEPT !.out = [st |-> "error", val |-> ErrorVal(ErrorString(e)), err |-> e]]

\* A fault for the sensitivity of C17: the Go error is not kept as Cause.
wrapErrorCauseless(m, hasFrame, msg) ==
    LET e == newRuntimeError(m, IF hasFrame THEN Len(m.frames) ELSE 0, msg, "")
    IN [m EXCEPT !.out = [st |-> "error", val |-> ErrorVal(msg), err |-> e]]

\* wrapError(fr, ErrorVal(err.Error()), err) for a plain Go error, which
\* becomes the Cause.
wrapError(m, hasFrame, msg) ==
    LET e == newRuntimeError(m, IF hasFrame THEN Len(m.frames) ELSE 0, msg, msg)
    IN [m EXCEPT !.out = [st |-> "error", val |-> ErrorVal(msg), err |-> e]]

ResetState(m) ==
    [m EXCEPT !.stack = <<>>, !.stale = <<>>, !.frames = <<>>, !.openUpvalues = <<>>,
              !.instCount = 0]

maxLocals(proto) == IF proto.MaxLocals > 0 THEN proto.MaxLocals ELSE proto.NumParams

\* A fault for the sensitivity of C10: pushFrame without the depth test.
pushFrameErrorUnbounded(m, fn) ==
    IF fn = 0 \/ m.funcs[fn].Proto = 0 THEN "invalid function" ELSE ""

\* The error pushFrame returns for fn ("" for nil).
pushFrameError(m, fn) ==
    IF fn = 0 \/ m.funcs[fn].Proto = 0 THEN "invalid function"
    ELSE IF Len(m.frames) >= m.maxFrames THEN "call stack overflow"
    ELSE ""

\* pushFrame when it succeeds, followed by the caller's copy of the
\* arguments into the first locals.
pushFrame(m, fn, args) ==
    LET n == maxLocals(m.protos[m.funcs[fn].Proto])
        locals == [i \in 1..n |-> IF i <= Len(args) THEN args[i] ELSE Null]
    IN [m EXCEPT !.locals = Append(@, locals),
                 !.frames = Append(@, [fn |-> fn, ip |-> 0, locals |-> Len(m.locals) + 1,
                                       base |-> Len(m.stack), lastOp |-> -1])]

\* upvalue.get / upvalue.set; uv = 0 is the nil upvalue.
UpvalueGet(m, uv) ==
    IF uv = 0 THEN Null
    ELSE IF m.cells[uv].open THEN m.locals[m.cells[uv].l][m.cells[uv].slot + 1]
    ELSE m.cells[uv].closed

UpvalueSet(m, uv, v) ==
    IF uv = 0 THEN m
    ELSE IF m.cells[uv].open
    THEN [m EXCEPT !.locals[m.cells[uv].l][m.cells[uv].slot + 1] = v]
    ELSE [m EXCEPT !.cells[uv].closed = v]

\* A fault for the sensitivity of C8: close() that drops the local's value.
closeUpvaluesLosing(m, l) ==
    IF Len(m.locals[l]) = 0 THEN m
    ELSE [m EXCEPT !.cells = [uv \in DOMAIN @ |->
                                 IF @[uv].open /\ @[uv].l = l
                                 THEN [@[uv] EXCEPT !.closed = Null, !.open = FALSE]
                                 ELSE @[uv]],
                   !.openUpvalues = SelectSeq(@, LAMBDA uv : ~(m.cells[uv].open
                                                                /\ m.cells[uv].l = l))]

\* A fault for the sensitivity of the filter: every listed upvalue is closed.
closeUpvaluesAll(m, l) ==
    IF Len(m.locals[l]) = 0 THEN m
    ELSE [m EXCEPT !.cells = [uv \in DOMAIN @ |->
                                 IF @[uv].open /\ \E i \in DOMAIN m.openUpvalues :
                                                     m.openUpvalues[i] = uv
                                 THEN [@[uv] EXCEPT !.closed = UpvalueGet(m, uv),
                                                    !.open = FALSE]
                                 ELSE @[uv]],
                   !.openUpvalues = <<>>]

\* upvalue.close for every open upvalue that points into locals l; the
\* others stay listed.
closeUpvalues(m, l) ==
    IF Len(m.locals[l]) = 0 THEN m
    ELSE LET hit(uv) == m.cells[uv].open /\ m.cells[uv].l = l
         IN [m EXCEPT !.cells = [uv \in DOMAIN @ |->
                                    IF hit(uv) /\ \E i \in DOMAIN m.openUpvalues :
                                                      m.openUpvalues[i] = uv
                                    THEN [@[uv] EXCEPT !.closed = UpvalueGet(m, uv),
                                                       !.open = FALSE]
                                    ELSE @[uv]],
                        !.openUpvalues = SelectSeq(@, LAMBDA uv : ~hit(uv))]

\* A fault for the sensitivity of C7: the search of the open list finds
\* nothing, so every capture makes a new upvalue.
CapturedNowhere(m, l, slot) == 0

\* captureUpvalue(&locals[slot]) of locals l: the listed upvalue for that
\* slot, or a new one; the upvalue returned is CapturedUpvalue.
CapturedIndex(m, l, slot) ==
    LET I == {i \in DOMAIN m.openUpvalues :
                 LET c == m.cells[m.openUpvalues[i]]
                 IN c.open /\ c.l = l /\ c.slot = slot}
    IN IF I = {} THEN 0 ELSE CHOOSE i \in I : \A j \in I : i <= j

CapturedUpvalue(m, l, slot) ==
    IF CapturedIndex(m, l, slot) = 0 THEN Len(m.cells) + 1
    ELSE m.openUpvalues[CapturedIndex(m, l, slot)]

captureUpvalue(m, l, slot) ==
    IF CapturedIndex(m, l, slot) # 0 THEN m
    ELSE [m EXCEPT !.cells = Append(@, [open |-> TRUE, l |-> l, slot |-> slot,
                                        closed |-> Null]),
                   !.openUpvalues = Append(@, Len(m.cells) + 1)]

\* A fault for the sensitivity of the return: the frame's upvalues stay
\* open.
finishFrameOpen(m, ret) ==
    LET fr == currentFrame(m)
        m2 == reslice([m EXCEPT !.frames = SubSeq(@, 1, Len(@) - 1)], fr.base)
    IN IF Len(m2.frames) = 0
       THEN [m2 EXCEPT !.out = [st |-> "done", val |-> ret, err |-> NoError]]
       ELSE push(m2, ret)

finishFrame(m, ret) ==
    LET fr == currentFrame(m)
        m1 == closeUpvalues(m, fr.locals)
        m2 == reslice([m1 EXCEPT !.frames = SubSeq(@, 1, Len(@) - 1)], fr.base)
    IN IF Len(m2.frames) = 0
       THEN [m2 EXCEPT !.out = [st |-> "done", val |-> ret, err |-> NoError]]
       ELSE push(m2, ret)

\* The helpers below return [err, v]: err is the error's text, "" for nil.
Ok(v) == [err |-> "", v |-> v]
Err(msg) == [err |-> msg, v |-> Null]

\* Num is an integer here, so "index must be integer" cannot arise.
expectIndex(index, length) ==
    IF index.k # "number" THEN [err |-> "index must be number", v |-> 0]
    ELSE IF length >= 0 /\ (index.n < 0 \/ index.n >= length)
    THEN [err |-> "index out of bounds", v |-> 0]
    ELSE [err |-> "", v |-> index.n]

expectKeyString(index) ==
    CASE index.k = "string" -> [err |-> "", v |-> index.s]
      [] index.k = "number" -> [err |-> "", v |-> stringIndex(index.n)]
      [] OTHER -> [err |-> "key must be string or number", v |-> ""]

\* A fault for the sensitivity of indexRead: a failed array lookup gives null.
indexGetLenient(m, target, index) ==
    CASE target.k = "array" ->
           LET i == expectIndex(index, Len(m.arrs[target.n]))
           IN IF i.err # "" THEN Ok(Null) ELSE Ok(m.arrs[target.n][i.v + 1])
      [] target.k = "object" ->
           LET key == expectKeyString(index)
           IN IF key.err # "" THEN Err(key.err)
              ELSE IF key.v \notin DOMAIN m.objs[target.n] THEN Err("missing key")
              ELSE Ok(m.objs[target.n][key.v])
      [] OTHER -> Err("not indexable")

indexGet(m, target, index) ==
    CASE target.k = "array" ->
           LET i == expectIndex(index, Len(m.arrs[target.n]))
           IN IF i.err # "" THEN Err(i.err) ELSE Ok(m.arrs[target.n][i.v + 1])
      [] target.k = "object" ->
           LET key == expectKeyString(index)
           IN IF key.err # "" THEN Err(key.err)
              ELSE IF key.v \notin DOMAIN m.objs[target.n] THEN Err("missing key")
              ELSE Ok(m.objs[target.n][key.v])
      [] OTHER -> Err("not indexable")

\* indexSet: [err, m], m being the machine after the store.
\* A fault for the sensitivity of C9: indexSet without the read-only test.
indexSetUnchecked(m, target, index, val) ==
    CASE target.k = "array" ->
           LET i == expectIndex(index, Len(m.arrs[target.n]))
           IN IF i.err # "" THEN [err |-> i.err, m |-> m]
              ELSE [err |-> "", m |-> [m EXCEPT !.arrs[target.n][i.v + 1] = val]]
      [] target.k = "object" ->
           LET key == expectKeyString(index)
           IN IF key.err # "" THEN [err |-> key.err, m |-> m]
              ELSE [err |-> "",
                    m |-> [m EXCEPT !.objs[target.n] = (key.v :> val) @@ @]]
      [] OTHER -> [err |-> "not indexable", m |-> m]

\* A fault for the sensitivity of the bounds: a store at the length appends.
indexSetAppending(m, target, index, val) ==
    CASE target.k = "array" ->
           LET i == expectIndex(index, Len(m.arrs[target.n]) + 1)
           IN IF target.ro THEN [err |-> "cannot modify read-only value", m |-> m]
              ELSE IF i.err # "" THEN [err |-> i.err, m |-> m]
              ELSE IF i.v = Len(m.arrs[target.n])
              THEN [err |-> "", m |-> [m EXCEPT !.arrs[target.n] = Append(@, val)]]
              ELSE [err |-> "", m |-> [m EXCEPT !.arrs[target.n][i.v + 1] = val]]
      [] target.k = "object" ->
           LET key == expectKeyString(index)
           IN IF target.ro THEN [err |-> "cannot modify read-only value", m |-> m]
              ELSE IF key.err # "" THEN [err |-> key.err, m |-> m]
              ELSE [err |-> "",
                    m |-> [m EXCEPT !.objs[target.n] = (key.v :> val) @@ @]]
      [] OTHER -> [err |-> "not indexable", m |-> m]

indexSet(m, target, index, val) ==
    CASE target.k = "array" ->
           LET i == expectIndex(index, Len(m.arrs[target.n]))
           IN IF target.ro THEN [err |-> "cannot modify read-only value", m |-> m]
              ELSE IF i.err # "" THEN [err |-> i.err, m |-> m]
              ELSE [err |-> "", m |-> [m EXCEPT !.arrs[target.n][i.v + 1] = val]]
      [] target.k = "object" ->
           LET key == expectKeyString(index)
           IN IF target.ro THEN [err |-> "cannot modify read-only value", m |-> m]
              ELSE IF key.err # "" THEN [err |-> key.err, m |-> m]
              ELSE [err |-> "",
                    m |-> [m EXCEPT !.objs[target.n] = (key.v :> val) @@ @]]
      [] OTHER -> [err |-> "not indexable", m |-> m]

indexExists(m, target, index) ==
    CASE target.k = "array" -> expectIndex(index, Len(m.arrs[target.n])).err = ""
      [] target.k = "object" ->
           expectKeyString(index).err = ""
           /\ expectKeyString(index).v \in DOMAIN m.objs[target.n]
      [] OTHER -> FALSE

valueExists(m, arr, v) ==
    arr.k = "array" /\ \E i \in DOMAIN m.arrs[arr.n] : Equal(m.arrs[arr.n][i], v)

typeName(v) == IF v.k = "bool" THEN "boolean" ELSE v.k

buildRange(start, end) ==
    IF end < start THEN [i \in 1..(start - end + 1) |-> Number(start - (i - 1))]
    ELSE [i \in 1..(end - start + 1) |-> Number(start + (i - 1))]

\* Division is exact on the integers the programs divide.
binaryOp(op, a, b) ==
    IF op \in {OP_ADD, OP_SUB, OP_MUL, OP_DIV}
    THEN IF a.k # "number" \/ b.k # "number" THEN Err("operands must be numbers")
         ELSE CASE op = OP_ADD -> Ok(Number(a.n + b.n))
                [] op = OP_SUB -> Ok(Number(a.n - b.n))
                [] op = OP_MUL -> Ok(Number(a.n * b.n))
                [] op = OP_DIV -> Ok(Number(a.n \div b.n))
    ELSE IF op = OP_EQ THEN Ok(Bool(Equal(a, b)))
    ELSE IF op = OP_NEQ THEN Ok(Bool(~Equal(a, b)))
    ELSE IF a.k # "number" \/ b.k # "number" THEN Err("operands must be numbers")
    ELSE CASE op = OP_LT -> Ok(Bool(a.n < b.n))
           [] op = OP_LTE -> Ok(Bool(a.n <= b.n))
           [] op = OP_GT -> Ok(Bool(a.n > b.n))
           [] op = OP_GTE -> Ok(Bool(a.n >= b.n))

\* All orders in which a Go map's keys can come out of a range loop.
RECURSIVE Orders(_)
Orders(S) ==
    IF S = {} THEN {<<>>}
    ELSE UNION {{<<x>> \o o : o \in Orders(S \ {x})} : x \in S}

\* A fault for the sensitivity of C14: an iterator handed to ITER_PREP is
\* rewound.
toIteratorRewinding(m, v, keys) ==
    CASE v.k = "array" ->
           [err |-> "", v |-> Len(m.iters) + 1,
            m |-> [m EXCEPT !.iters = Append(@, [arr |-> v.n, obj |-> 0, keys |-> <<>>,
                                                 index |-> 0])]]
      [] v.k = "object" ->
           [err |-> "", v |-> Len(m.iters) + 1,
            m |-> [m EXCEPT !.iters = Append(@, [arr |-> 0, obj |-> v.n, keys |-> keys,
                                                 index |-> 0])]]
      [] v.k = "iterator" ->
           IF v.n = 0 THEN [err |-> "iterator is nil", v |-> 0, m |-> m]
           ELSE [err |-> "", v |-> v.n, m |-> [m EXCEPT !.iters[v.n].index = 0]]
      [] OTHER -> [err |-> "not iterable", v |-> 0, m |-> m]

\* toIterator: [err, m, v]; keys is the order the map's range produced.
\* An array iterator holds the slice (arr) and shares its elements.
toIterator(m, v, keys) ==
    CASE v.k = "array" ->
           [err |-> "", v |-> Len(m.iters) + 1,
            m |-> [m EXCEPT !.iters = Append(@, [arr |-> v.n, obj |-> 0, keys |-> <<>>,
                                                 index |-> 0])]]
      [] v.k = "object" ->
           [err |-> "", v |-> Len(m.iters) + 1,
            m |-> [m EXCEPT !.iters = Append(@, [arr |-> 0, obj |-> v.n, keys |-> keys,
                                                 index |-> 0])]]
      [] v.k = "iterator" ->
           IF v.n = 0 THEN [err |-> "iterator is nil", v |-> 0, m |-> m]
           ELSE [err |-> "", v |-> v.n, m |-> m]
      [] OTHER -> [err |-> "not iterable", v |-> 0, m |-> m]

\* A fault for the sensitivity of C13: Next over the keys the object has
\* now, those added since the iterator was made after the others.
IteratorNextLive(m, id) ==
    LET it == m.iters[id]
        step == [m EXCEPT !.iters[id].index = @ + 1]
        seen == {it.keys[i] : i \in DOMAIN it.keys}
    IN IF it.arr # 0
       THEN IF it.index >= Len(m.arrs[it.arr])
            THEN [ok |-> FALSE, key |-> "", val |-> Null, m |-> m]
            ELSE [ok |-> TRUE, key |-> stringIndex(it.index),
                  val |-> m.arrs[it.arr][it.index + 1], m |-> step]
       ELSE IF it.obj # 0
       THEN IF it.index < Len(it.keys)
            THEN [ok |-> TRUE, key |-> it.keys[it.index + 1],
                  val |-> m.objs[it.obj][it.keys[it.index + 1]], m |-> step]
            ELSE IF DOMAIN m.objs[it.obj] \ seen # {}
            THEN LET k == CHOOSE x \in DOMAIN m.objs[it.obj] \ seen : TRUE
                 IN [ok |-> TRUE, key |-> k, val |-> m.objs[it.obj][k],
                     m |-> [step EXCEPT !.iters[id].keys = Append(@, k)]]
            ELSE [ok |-> FALSE, key |-> "", val |-> Null, m |-> m]
       ELSE [ok |-> FALSE, key |-> "", val |-> Null, m |-> m]

\* Iterator.Next: [ok, key, val, m].
IteratorNext(m, id) ==
    LET it == m.iters[id]
        step == [m EXCEPT !.iters[id].index = @ + 1]
    IN IF it.arr # 0
       THEN IF it.index >= Len(m.arrs[it.arr])
            THEN [ok |-> FALSE, key |-> "", val |-> Null, m |-> m]
            ELSE [ok |-> TRUE, key |-> stringIndex(it.index),
                  val |-> m.arrs[it.arr][it.index + 1], m |-> step]
       ELSE IF it.obj # 0
       THEN IF it.index >= Len(it.keys)
            THEN [ok |-> FALSE, key |-> "", val |-> Null, m |-> m]
            ELSE LET k == it.keys[it.index + 1]
                 IN [ok |-> TRUE, key |-> k,
                     val |-> IF k \in DOMAIN m.objs[it.obj] THEN m.objs[it.obj][k] ELSE Null,
                     m |-> step]
       ELSE [ok |-> FALSE, key |-> "", val |-> Null, m |-> m]

\* The host's native functions (vm.NativeFunction values bound as globals):
\* mark(k) records k and returns null; cond(k, v) records k and returns v;
\* fail() returns vm.ErrorVal("boom"), errors.New("boom"); iter(xs) returns
\* vm.IteratorVal(vm.NewArrayIterator(xs.Arr)) for an array and the error
\* "not an array" for anything else.  [err, v, m].
Arg(args, i) == IF i <= Len(args) THEN args[i] ELSE Null

Native(m, name, args) ==
    CASE name = "mark" ->
           [err |-> "", v |-> Null, m |-> [m EXCEPT !.log = Append(@, Arg(args, 1))]]
      [] name = "cond" ->
           [err |-> "", v |-> Arg(args, 2), m |-> [m EXCEPT !.log = Append(@, Arg(args, 1))]]
      [] name = "fail" ->
           [err |-> "boom", v |-> ErrorVal("boom"), m |-> m]
      [] name = "iter" ->
           IF Arg(args, 1).k # "array"
           THEN [err |-> "not an array", v |-> ErrorVal("not an array"), m |-> m]
           ELSE [err |-> "", v |-> IteratorVal(Len(m.iters) + 1),
                 m |-> [m EXCEPT !.iters = Append(@, [arr |-> Arg(args, 1).n, obj |-> 0,
                                                      keys |-> <<>>, index |-> 0])]]

BuiltinName(op) == CHOOSE name \in BuiltinNames : LookupByName(name).Opcode = op

BuiltinArity(op) ==
    CASE op \in {OP_TYPEOF, OP_ERROR, OP_READONLY} -> 1
      [] op \in {OP_INDEX_EXIST, OP_VALUE_EXIST} -> 2
      [] op = OP_INDEX_READ -> 3

\* runBuiltin: the arity check against the whole stack, then the handler
\* registered for the opcode.
runBuiltin(m, op) ==
    IF Len(m.stack) < BuiltinArity(op)
    THEN errorf(m, TRUE, "builtin " \o BuiltinName(op) \o " expects "
                         \o stringIndex(BuiltinArity(op)) \o " args, stack has "
                         \o stringIndex(Len(m.stack)))
    ELSE CASE op = OP_TYPEOF -> push(pop(m), String(typeName(peek(m))))
           [] op = OP_READONLY -> push(pop(m), Bool(peek(m).ro))
           [] op = OP_ERROR ->
                IF peek(m).k # "string" THEN errorf(pop(m), TRUE, "error expects string")
                ELSE push(pop(m), ErrorVal(peek(m).s))
           [] op = OP_INDEX_EXIST ->
                LET a == popped(m, 2)
                IN push(popN(m, 2), Bool(indexExists(m, a[1], a[2])))
           [] op = OP_VALUE_EXIST ->
                LET a == popped(m, 2)
                IN push(popN(m, 2), Bool(valueExists(m, a[1], a[2])))
           [] op = OP_INDEX_READ ->
                LET a == popped(m, 3)
                    r == indexGet(m, a[1], a[2])
                IN push(popN(m, 3), IF r.err # "" THEN a[3] ELSE r.v)

\* OP_OBJECT's loop: the pairs are popped last first and stored as popped,
\* so of two equal keys the earlier pair is the one that stays.  [err, obj].
RECURSIVE buildObject(_, _)
buildObject(a, i) ==
    IF i = 0 THEN [err |-> "", obj |-> EmptyMap]
    ELSE LET key == expectKeyString(a[2 * i - 1])
             rest == buildObject(a, i - 1)
         IN IF key.err # "" THEN [err |-> key.err, obj |-> EmptyMap]
            ELSE IF rest.err # "" THEN rest
            ELSE [err |-> "", obj |-> (key.v :> a[2 * i]) @@ rest.obj]

\* OP_CLOSURE's loop over the descriptor pairs, from pair i on: [err, m, ups].
RECURSIVE captureAll(_, _, _, _)
captureAll(m, i, upcount, ups) ==
    IF i >= upcount THEN [err |-> "", m |-> m, ups |-> ups]
    ELSE LET isLocal == readU8(m)
             slot == readU8(advance(m, 1))
             m1 == advance(m, 2)
             l == currentFrame(m).locals
         IN IF isLocal = 1
            THEN IF slot >= Len(m.locals[l])
                 THEN [err |-> "upvalue local slot out of range", m |-> m1, ups |-> ups]
                 ELSE captureAll(captureUpvalue(m1, l, slot), i + 1, upcount,
                                 Append(ups, CapturedUpvalue(m1, l, slot)))
            ELSE IF slot >= Len(FrameFn(m).Upvalues)
                 THEN [err |-> "upvalue index out of range", m |-> m1, ups |-> ups]
                 ELSE captureAll(m1, i + 1, upcount, Append(ups, FrameFn(m).Upvalues[slot + 1]))

newFunction(proto, name, upvalues, native) ==
    [Proto |-> proto, Name |-> name, Upvalues |-> upvalues, Native |-> native]

\* Run from `vm.ResetState()` on, up to the loop: a native function is
\* called outright, a script function gets the first frame and its arguments.
RECURSIVE run(_, _, _)

\* The host's native function apply, which calls its argument back on the
\* VM that is running it:
\*   func(m *vm.VM, args []vm.Value) (vm.Value, error) {
\*     if len(args) == 0 || args[0].Kind != vm.KindFunction || args[0].Func == nil {
\*       return vm.ErrorVal("not a function"), errors.New("not a function")
\*     }
\*     res, _ := m.Run(args[0].Func, nil)
\*     return res, nil
\*   }
\* up to the point where m.Run is in its loop or has returned; at tells
\* which activation called the handler: "call" for OP_CALL in Run's loop,
\* "run" for Run's own call of a native function.
apply(m, args, at) ==
    IF Arg(args, 1).k # "function" \/ Arg(args, 1).n = 0
    THEN wrapError(m, at = "call", "not a function")
    ELSE run([m EXCEPT !.nest = Append(@, at)], Arg(args, 1).n, <<>>)

run(m, fn, args) ==
    LET m0 == [ResetState(m) EXCEPT !.out = Running]
    IN IF fn = 0 THEN errorf(m0, FALSE, "invalid function")
       ELSE IF m0.funcs[fn].Native = "apply" THEN apply(m0, args, "run")
       ELSE IF m0.funcs[fn].Native # ""
       THEN LET r == Native(m0, m0.funcs[fn].Native, args)
            IN IF r.err # "" THEN wrapError(r.m, FALSE, r.err)
               ELSE [r.m EXCEPT !.out = [st |-> "done", val |-> r.v, err |-> NoError]]
       ELSE IF pushFrameError(m0, fn) # "" THEN errorf(m0, FALSE, pushFrameError(m0, fn))
       ELSE pushFrame(m0, fn, args)

\* m.Run has returned to apply, and apply returns its value to the
\* activation that called it: Run's own call returns it, OP_CALL pushes it
\* and goes back to the loop's test `len(vm.frames) > 0`, after which Run
\* ends with `return Null(), nil`.
resume(m) ==
    LET m1 == [m EXCEPT !.nest = SubSeq(@, 1, Len(@) - 1)]
    IN IF m.nest[Len(m.nest)] = "run"
       THEN [m1 EXCEPT !.out = [st |-> "done", val |-> m.out.val, err |-> NoError]]
       ELSE IF Len(m.frames) = 0
       THEN [push(m1, m.out.val) EXCEPT !.out = [st |-> "done", val |-> Null,
                                                 err |-> NoError]]
       ELSE [push(m1, m.out.val) EXCEPT !.out = Running]

\* The returns of the activations that have nothing left to wait for.
RECURSIVE Unwind(_)
Unwind(m) == IF m.out.st = "run" \/ m.nest = <<>> THEN m ELSE Unwind(resume(m))

\* OP_CALL after its operand is read.
opCall(m, argc) ==
    LET args == popped(m, argc)
        m1 == popN(m, argc)
        callee == peek(m1)
        m2 == pop(m1)
        fn == callee.n
    IN IF Len(m.stack) < argc + 1
       THEN errorf(m, TRUE, "stack underflow on call: argc=" \o stringIndex(argc)
                            \o " stack=" \o stringIndex(Len(m.stack)))
       ELSE IF callee.k # "function" \/ fn = 0 THEN wrapError(m2, TRUE, "not a function")
       ELSE IF m2.funcs[fn].Native = "apply" THEN apply(m2, args, "call")
       ELSE IF m2.funcs[fn].Native # ""
       THEN LET r == Native(m2, m2.funcs[fn].Native, args)
            IN IF r.err # "" THEN wrapError(r.m, TRUE, r.err) ELSE push(r.m, r.v)
       ELSE IF pushFrameError(m2, fn) # "" THEN wrapError(m2, TRUE, pushFrameError(m2, fn))
       ELSE pushFrame(m2, fn, args)

\* One case of the dispatch switch, entered with ip past the opcode; keys
\* is the order a map's range takes should the instruction build an object
\* iterator.
Exec(m, op, keys) ==
    LET fr == currentFrame(m)
        a2 == popped(m, 2)
        a3 == popped(m, 3)
        u8 == readU8(m)
        u16 == readU16(m)
        name == FrameConsts(m)[u16 + 1]
    IN CASE op \in {OP_NOP, OP_DEBUG} -> m
         [] op = OP_CONST -> push(advance(m, 2), FrameConsts(m)[u16 + 1])
         [] op = OP_NULL -> push(m, Null)
         [] op = OP_TRUE -> push(m, Bool(TRUE))
         [] op = OP_FALSE -> push(m, Bool(FALSE))
         [] op = OP_POP -> pop(m)
         [] op \in {OP_ADD, OP_SUB, OP_MUL, OP_DIV, OP_EQ, OP_NEQ, OP_LT, OP_LTE, OP_GT,
                    OP_GTE} ->
              LET r == binaryOp(op, a2[1], a2[2])
              IN IF r.err # "" THEN wrapError(popN(m, 2), TRUE, r.err)
                 ELSE push(popN(m, 2), r.v)
         [] op = OP_NEG ->
              IF peek(m).k # "number" THEN errorf(pop(m), TRUE, "operand must be number")
              ELSE push(pop(m), Number(-peek(m).n))
         [] op = OP_NOT -> push(pop(m), Bool(~Truthy(peek(m))))
         [] op = OP_AND -> push(popN(m, 2), Bool(Truthy(a2[1]) /\ Truthy(a2[2])))
         [] op = OP_OR -> push(popN(m, 2), Bool(Truthy(a2[1]) \/ Truthy(a2[2])))
         [] op = OP_GET_LOCAL ->
              IF u8 >= Len(FrameLocals(m))
              THEN errorf(advance(m, 1), TRUE, "local slot out of range")
              ELSE push(advance(m, 1), FrameLocals(m)[u8 + 1])
         [] op = OP_SET_LOCAL ->
              IF u8 >= Len(FrameLocals(m))
              THEN errorf(advance(m, 1), TRUE, "local slot out of range")
              ELSE [pop(advance(m, 1)) EXCEPT !.locals[fr.locals][u8 + 1] = peek(m)]
         [] op = OP_GET_UPVALUE ->
              IF u8 >= Len(FrameFn(m).Upvalues)
              THEN errorf(advance(m, 1), TRUE, "upvalue slot out of range")
              ELSE push(advance(m, 1), UpvalueGet(m, FrameFn(m).Upvalues[u8 + 1]))
         [] op = OP_SET_UPVALUE ->
              IF u8 >= Len(FrameFn(m).Upvalues)
              THEN errorf(advance(m, 1), TRUE, "upvalue slot out of range")
              ELSE UpvalueSet(pop(advance(m, 1)), FrameFn(m).Upvalues[u8 + 1], peek(m))
         [] op = OP_GET_GLOBAL ->
              IF name.k # "string"
              THEN errorf(advance(m, 2), TRUE, "global name constant is not string")
              ELSE IF name.s \notin DOMAIN m.globals
              THEN errorf(advance(m, 2), TRUE, "global " \o name.s \o " not found")
              ELSE push(advance(m, 2), m.globals[name.s])
         [] op \in {OP_SET_GLOBAL, OP_DEFINE_GLOBAL} ->
              IF name.k # "string"
              THEN errorf(advance(m, 2), TRUE, "global name constant is not string")
              ELSE [pop(advance(m, 2)) EXCEPT !.globals = (name.s :> peek(m)) @@ @]
         [] op = OP_ARRAY ->
              LET m1 == popN(advance(m, 2), u16)
              IN push([m1 EXCEPT !.arrs = Append(@, popped(m, u16))],
                      Array(Len(m.arrs) + 1))
         [] op = OP_OBJECT ->
              LET r == buildObject(popped(m, 2 * u16), u16)
                  m1 == popN(advance(m, 2), 2 * u16)
              IN IF r.err # "" THEN wrapError(m1, TRUE, r.err)
                 ELSE push([m1 EXCEPT !.objs = Append(@, r.obj)], Object(Len(m.objs) + 1))
         [] op = OP_RANGE ->
              LET s1 == expectIndex(a2[1], -1)
                  e1 == expectIndex(a2[2], -1)
              IN IF s1.err # "" THEN wrapError(popN(m, 2), TRUE, s1.err)
                 ELSE IF e1.err # "" THEN wrapError(popN(m, 2), TRUE, e1.err)
                 ELSE push([popN(m, 2) EXCEPT !.arrs = Append(@, buildRange(s1.v, e1.v))],
                           Array(Len(m.arrs) + 1))
         [] op = OP_INDEX_GET ->
              LET r == indexGet(m, a2[1], a2[2])
              IN IF r.err # "" THEN wrapError(popN(m, 2), TRUE, r.err)
                 ELSE push(popN(m, 2), r.v)
         [] op = OP_INDEX_SET ->
              LET r == indexSet(popN(m, 3), a3[1], a3[2], a3[3])
              IN IF r.err # "" THEN wrapError(r.m, TRUE, r.err) ELSE r.m
         [] op = OP_GET_PROP ->
              LET obj == peek(m)
                  m1 == pop(advance(m, 2))
              IN IF name.k # "string"
                 THEN errorf(advance(m, 2), TRUE, "property name constant is not string")
                 ELSE IF obj.k # "object" \/ obj.n = 0
                 THEN errorf(m1, TRUE, "property access on non-object")
                 ELSE IF name.s \notin DOMAIN m.objs[obj.n]
                 THEN errorf(m1, TRUE, "missing property " \o name.s)
                 ELSE push(m1, m.objs[obj.n][name.s])
         [] op = OP_SET_PROP ->
              LET obj == a2[1]
                  m1 == popN(advance(m, 2), 2)
              IN IF name.k # "string"
                 THEN errorf(advance(m, 2), TRUE, "property name constant is not string")
                 ELSE IF obj.k # "object" \/ obj.n = 0
                 THEN errorf(m1, TRUE, "property set on non-object")
                 ELSE IF obj.ro THEN errorf(m1, TRUE, "cannot modify read-only value")
                 ELSE [m1 EXCEPT !.objs[obj.n] = (name.s :> a2[2]) @@ @]
         [] op = OP_JUMP -> jumpTo(m, u16)
         [] op = OP_JUMP_IF_FALSE ->
              IF ~Truthy(peek(m)) THEN jumpTo(pop(m), u16) ELSE pop(advance(m, 2))
         [] op = OP_JUMP_IF_TRUE ->
              IF Truthy(peek(m)) THEN jumpTo(pop(m), u16) ELSE pop(advance(m, 2))
         [] op = OP_CALL -> opCall(advance(m, 1), u8)
         [] op = OP_RETURN ->
              IF Len(m.stack) > fr.base THEN finishFrame(pop(m), peek(m))
              ELSE finishFrame(m, Null)
         [] op = OP_CLOSURE ->
              LET proto == FrameConsts(m)[u16 + 1]
                  upcount == readU8(advance(m, 2))
                  r == captureAll(advance(m, 3), 0, upcount, <<>>)
                  p == m.protos[proto.n]
              IN IF proto.k # "proto"
                 THEN errorf(advance(m, 3), TRUE, "closure constant is not prototype")
                 ELSE IF r.err # "" THEN errorf(r.m, TRUE, r.err)
                 ELSE push([r.m EXCEPT !.funcs = Append(@, newFunction(proto.n, p.Name,
                                                                       r.ups, ""))],
                           FunctionVal(Len(m.funcs) + 1))
         [] op = OP_ITER_PREP ->
              LET r == toIterator(pop(m), peek(m), keys)
              IN IF r.err # "" THEN wrapError(r.m, TRUE, r.err)
                 ELSE push(r.m, IteratorVal(r.v))
         [] op = OP_ITER_NEXT ->
              LET iter == peek(m)
                  m1 == advance(m, 2)
                  r == IteratorNext(m1, iter.n)
              IN IF iter.k # "iterator" \/ iter.n = 0 THEN errorf(m1, TRUE, "not an iterator")
                 ELSE IF ~r.ok THEN jumpTo(r.m, u16)
                 ELSE push(push(r.m, String(r.key)), r.val)
         [] OTHER -> errorf(m, TRUE, "unknown opcode " \o stringIndex(op))

\* One turn of Run's loop `for len(vm.frames) > 0`.
\* A fault for the sensitivity of C3: the limit test off by one.
limitExceededLate(m) == m.instLimit > 0 /\ m.instCount > m.instLimit + 1

\* The trace hook was not called.
NoTrace == [op |-> -1, ip |-> 0]

\* vm.trace(fr, op) with a hook set: the hook is handed the opcode and
\* offsetForFrame(fr).
trace(m, op) ==
    [m EXCEPT !.traced = [op |-> op, ip |-> offsetForFrame(currentFrame(m))]]

\* `vm.instLimit > 0 && vm.instCount > vm.instLimit`, after the increment.
limitExceeded(m) == m.instLimit > 0 /\ m.instCount > m.instLimit

Step(m, keys) ==
    LET m0 == [m EXCEPT !.frames[Len(m.frames)].lastOp = currentFrame(m).ip,
                        !.traced = NoTrace]
        fr == currentFrame(m0)
        code == FrameCode(m0)
        op == code[fr.ip + 1]
        m1 == [advance(m0, 1) EXCEPT !.instCount = @ + 1]
    IN IF FrameFn(m0).Proto = 0 THEN errorf(m0, TRUE, "function missing prototype")
       ELSE IF fr.ip >= Len(code) THEN finishFrame(m0, Null)
       ELSE IF limitExceeded(m1)
       THEN errorf(m1, TRUE, "instruction limit exceeded")
       ELSE IF op \in {OP_TYPEOF, OP_ERROR, OP_INDEX_EXIST, OP_INDEX_READ, OP_VALUE_EXIST,
                       OP_READONLY}
       THEN runBuiltin(trace(m1, op), op)
       ELSE Exec(trace(m1, op), op, keys)

(***************************************************************************)
(* What the host binds before any call: containers it passes as arguments  *)
(* (arrays 4 and 5 and object 2 are only ever handed out flagged           *)
(* read-only, array 4 nested in array 5), the module's functions and the   *)
(* native functions.                                                       *)
(***************************************************************************)
\* applyReadOnly on a container the host marshals.
ReadOnly(v) == [v EXCEPT !.ro = TRUE]

HostArrs ==
    << <<>>,
       <<Number(7)>>,
       <<Number(7), Number(8)>>,
       <<Number(5)>>,
       <<Number(1), ReadOnly(Array(4))>> >>

HostObjs == << ("x" :> Number(1)), ("x" :> Number(1)) >>

NativeNames == <<"mark", "cond", "fail", "apply", "iter">>

\* LoadModule(mod), then SetGlobalFunction for each native: the function
\* objects, in the order of the declarations, and the globals naming them.
LoadedFuncs(mod) ==
    [i \in 1..Len(Program) |->
        newFunction(mod.Functions[Program[i].Name], Program[i].Name,
                    [j \in 1..Len(mod.protos[mod.Functions[Program[i].Name]].Upvalues)
                        |-> 0], "")]
    \o [i \in 1..Len(NativeNames) |-> newFunction(0, NativeNames[i], <<>>, NativeNames[i])]

NumLoaded == Len(Program) + Len(NativeNames)

GlobalNames ==
    {Program[i].Name : i \in 1..Len(Program)} \cup {NativeNames[i] : i \in 1..Len(NativeNames)}

LoadedGlobals(funcs) ==
    [name \in GlobalNames |->
        FunctionVal(CHOOSE i \in DOMAIN funcs : funcs[i].Name = name)]

InitHeap(mod) ==
    [arrs |-> HostArrs, objs |-> HostObjs, funcs |-> LoadedFuncs(mod), cells |-> <<>>,
     locals |-> <<>>, iters |-> <<>>, protos |-> mod.protos]

\* Go's collector: once Run has reset the stack, the frames and the open
\* upvalues, everything the earlier invocations allocated is unreachable
\* unless a global, a host container or an argument still refers to it; the
\* heap indices of what is collected are used again.
Allocated(v) ==
    \/ v.k = "array" /\ v.n > Len(HostArrs)
    \/ v.k = "object" /\ v.n > Len(HostObjs)
    \/ v.k = "function" /\ v.n > NumLoaded
    \/ v.k = "iterator"

Collectable(m, args) ==
    /\ ~m.pin
    /\ \A name \in DOMAIN m.globals : ~Allocated(m.globals[name])
    /\ \A i \in DOMAIN args : ~Allocated(args[i])
    /\ \A a \in DOMAIN HostArrs : \A i \in DOMAIN m.arrs[a] : ~Allocated(m.arrs[a][i])
    /\ \A o \in DOMAIN HostObjs : \A key \in DOMAIN m.objs[o] : ~Allocated(m.objs[o][key])

Collect(m, args) ==
    IF Collectable(m, args)
    THEN [m EXCEPT !.arrs = SubSeq(@, 1, Len(HostArrs)),
                   !.objs = SubSeq(@, 1, Len(HostObjs)),
                   !.funcs = SubSeq(@, 1, NumLoaded),
                   !.cells = <<>>, !.locals = <<>>, !.iters = <<>>]
    ELSE m

\* Run as the host calls it: what the earlier invocation left behind is
\* garbage once the state is reset.
Run(m, fn, args) == run(Collect(ResetState(m), args), fn, args)

\* vm.Call: the global is looked up before anything is reset.
Call(m, name, args) ==
    IF name \notin DOMAIN m.globals
    THEN errorf(m, FALSE, "global " \o name \o " not found")
    ELSE IF m.globals[name].k # "function" \/ m.globals[name].n = 0
    THEN wrapError(m, FALSE, "not a function")
    ELSE Run(m, m.globals[name].n, args)

SetInstructionLimit(m, limit) == [m EXCEPT !.instLimit = IF limit < 0 THEN 0 ELSE limit]

(***************************************************************************)
(* The state machine of the interpreter alone: the host sets the           *)
(* instruction limit and calls global functions, one call at a time; an    *)
(* invocation advances by one turn of Run's loop per step.                 *)
(***************************************************************************)
MaxCalls == 2
MaxSteps == 530
Limits == {-1, 0, 3, 9}

Bools == {Bool(TRUE), Bool(FALSE)}
Operands == Bools \cup {Null, Number(0)}
PlainArrays == {Array(1), Array(2), Array(3)}
ReadOnlyArray == ReadOnly(Array(5))
PlainObject == Object(1)
ReadOnlyObject == ReadOnly(Object(2))

\* Arguments for the comparisons: objects 1 and 2 have equal contents.
Comparands ==
    {Null, Bool(TRUE), Bool(FALSE), Number(0), Number(1), String("a"), String("b"),
     Array(2), Array(3), Object(1), Object(2)}

\* Targets for the index builtins: two containers and two values that are
\* neither an array nor an object.
Targets == {Array(3), PlainObject, Null, Number(4)}

Invocation(name, args) == [name |-> name, args |-> args]

Invocations ==
    {Invocation("chain", <<a, b>>) : a \in Bools, b \in Bools}
    \cup {Invocation("chain3", <<a, b, c>>) : a \in Bools, b \in Bools, c \in Bools}
    \cup {Invocation(f, <<a, b>>) : f \in {"land", "lor"}, a \in Operands, b \in Bools}
    \cup {Invocation(f, <<xs>>) : f \in {"loop", "loopPair", "loopNest", "loopIf", "loopAnd"},
                                  xs \in PlainArrays}
    \cup {Invocation(f, <<>>) : f \in {"mk", "share", "deep", "rec", "spin", "missing"}}
    \cup {Invocation(f, <<>>) : f \in {"nested", "nestedFail", "nestedTwice", "nestedNative",
                                        "applyBad", "raise", "raiseDeep"}}
    \cup {Invocation(f, <<a>>) : f \in {"setIdx", "setNested", "probe", "bad", "loop"},
                                 a \in {Array(3), ReadOnlyArray}}
    \cup {Invocation(f, <<o>>) : f \in {"setKey", "setProp", "probe"},
                                 o \in {PlainObject, ReadOnlyObject}}
    \cup {Invocation("add", <<Number(1), b>>) : b \in {Number(2), Null}}
    \cup {Invocation(f, <<>>) : f \in {"keys2", "grow", "sameFn"}}
    \cup {Invocation("once", <<xs>>) : xs \in PlainArrays}
    \cup {Invocation("same", <<a>>) : a \in Comparands}
    \cup {Invocation("eq", <<a, b>>) :
              a \in Comparands,
              b \in {Bool(FALSE), Number(1), String("b"), Array(3), Object(2)}}
    \cup {Invocation("eqErr", <<String(a), String(b)>>) : a \in {"a", "b"}, b \in {"a", "b"}}
    \cup {Invocation("shorts", <<a>>) : a \in Operands}
    \cup {Invocation("extra", args) : args \in {<<>>, <<Bool(FALSE)>>, <<Bool(FALSE), Number(7)>>}}
    \cup {Invocation("callExtra", <<>>)}
    \cup {Invocation("pick", <<a>>) : a \in Bools}
    \cup {Invocation("callPick", <<>>)}
    \cup {Invocation("at", <<Array(3), i>>) : i \in {Number(-1), Number(1), Number(2), Null}}
    \cup {Invocation("put", <<Array(3), i>>) : i \in {Number(-1), Number(0), Number(2), Null}}
    \cup {Invocation(f, <<t, i>>) : f \in {"read", "has"}, t \in Targets,
                                    i \in {Number(0), Number(5), String("x"), Null}}
    \cup {Invocation("holds", <<t, Number(7)>>) : t \in Targets}
    \cup {Invocation(f, <<a>>) : f \in {"sum", "pair"}, a \in Bools}
    \cup {Invocation("outer", <<>>)}

NoResult == [st |-> "none", val |-> Null, err |-> NoError]

\* vm.New() with the module loaded and the natives bound.
InitCore(funcs) ==
    [stack |-> <<>>, stale |-> <<>>, frames |-> <<>>, globals |-> LoadedGlobals(funcs),
     openUpvalues |-> <<>>, maxFrames |-> defaultMaxFrames, instLimit |-> 0, instCount |-> 0]

\* vm.New(): no globals, nothing on the stack.
New ==
    [stack |-> <<>>, stale |-> <<>>, frames |-> <<>>, globals |-> <<>>,
     openUpvalues |-> <<>>, maxFrames |-> defaultMaxFrames, instLimit |-> 0, instCount |-> 0]

\* No Duplicate has returned yet: core is the VM the host made.
NoTwin ==
    [made |-> FALSE, active |-> "base", core |-> New,
     clone |-> [arrays |-> <<>>, objects |-> <<>>, functions |-> <<>>, upvalues |-> <<>>,
                iterators |-> <<>>]]

\* No parser has been made.
NoParser ==
    [toks |-> <<>>, pos |-> 1, errors |-> 0, hang |-> FALSE, nil |-> FALSE,
     statements |-> 0, phase |-> "none"]

\* No lexer has been made.
NoLexer ==
    [input |-> <<>>, pos |-> 1, parenDepth |-> 0, bracketDepth |-> 0, lastToken |-> "NEWLINE",
     tok |-> "", out |-> <<>>, phase |-> "none"]

\* Compile has not been called.
NoCompile ==
    [prog |-> <<>>, next |-> 1, phase |-> "none", Functions |-> EmptyMap, protos |-> <<>>,
     err |-> ""]

Init ==
    /\ heap = InitHeap(Module)
    /\ core = InitCore(heap.funcs)
    /\ hostLog = <<>>
    /\ pc = "idle"
    /\ call = Invocation("", <<>>)
    /\ result = NoResult
    /\ ncalls = 0
    /\ busy = FALSE
    /\ futures = <<>>
    /\ dups = <<>>
    /\ twin = NoTwin
    /\ parser = NoParser
    /\ lexer = NoLexer
    /\ compiling = NoCompile
    /\ handles = <<>>
    /\ traced = NoTrace
    /\ nest = <<>>

\* pin: a second VM holds references into the heap.
MachineOf(c) == c @@ heap @@ [log |-> hostLog, out |-> Running, nest |-> nest,
                              pin |-> twin.made, traced |-> traced]

Machine == MachineOf(core)

Commit(m) ==
    /\ core' = [f \in DOMAIN core |-> m[f]]
    /\ heap' = [f \in DOMAIN heap |-> m[f]]
    /\ hostLog' = m.log
    /\ pc' = IF m.out.st = "run" THEN "run" ELSE "idle"
    /\ result' = m.out
    /\ nest' = m.nest
    /\ traced' = m.traced

\* The orders a range over the map under ITER_PREP can take.
KeyOrders(m) ==
    LET fr == currentFrame(m)
    IN IF /\ fr.ip < Len(FrameCode(m))
          /\ FrameCode(m)[fr.ip + 1] = OP_ITER_PREP
          /\ peek(m).k = "object"
       THEN Orders(DOMAIN m.objs[peek(m).n])
       ELSE {<<>>}

\* vm.SetInstructionLimit between invocations.
SetLimit(limit) ==
    /\ pc = "idle"
    /\ core' = SetInstructionLimit(core, limit)
    /\ UNCHANGED <<heap, hostLog, pc, call, result, ncalls, busy, futures, dups, twin, parser, lexer, compiling, nest,
                   traced, handles>>

\* vm.Call(name, args) up to the dispatch loop; the host's log starts empty.
Start(inv) ==
    /\ pc = "idle"
    /\ ncalls < MaxCalls
    /\ call' = inv
    /\ ncalls' = ncalls + 1
    /\ Commit(Unwind(Call([Machine EXCEPT !.log = <<>>, !.traced = NoTrace], inv.name, inv.args)))
    /\ UNCHANGED <<busy, futures, dups, twin, parser, lexer, compiling, handles>>

\* One turn of the dispatch loop of the invocation in progress.
StepRun ==
    /\ pc = "run"
    /\ core.instCount < MaxSteps
    /\ \E keys \in KeyOrders(Machine) : Commit(Unwind(Step(Machine, keys)))
    /\ UNCHANGED <<call, ncalls, busy, futures, dups, twin, parser, lexer, compiling, handles>>

Next ==
    \/ \E limit \in Limits : SetLimit(limit)
    \/ \E inv \in Invocations : Start(inv)
    \/ StepRun

Spec == Init /\ [][Next]_vars

(***************************************************************************)
(* The host API (api.go): CallAsync, its goroutine, Await and Duplicate.   *)
(* Each future carries the position of its goroutine: "start" (spawned),   *)
(* "run" (inside core.Call), "sent" (result on the channel), "released"    *)
(* (busy cleared), "closed" (channel closed).  propagateErrors keeps its   *)
(* default, false.                                                         *)
(***************************************************************************)
MaxFutures == 2
MaxDups == 1

ApiInvocations ==
    {Invocation("add", <<Number(1), Number(2)>>), Invocation("add", <<Number(1), Null>>),
     Invocation("missing", <<>>), Invocation("setIdx", <<Array(3)>>)}

\* errors.New(msg), in the shape of the runtime errors.
GoError(msg) == [Message |-> msg, Frame |-> NoFrameInfo, Stack |-> <<>>, Cause |-> ""]

NoCallResult == [sent |-> FALSE, Value |-> Null, Err |-> NoError]
VmCallResult(val, err) == [sent |-> TRUE, Value |-> val, Err |-> err]

VmCallFuture(inv, at, res) == [inv |-> inv, at |-> at, res |-> res, awaited |-> FALSE]

\* A fault for the sensitivity of C1: the busy flag is never honoured.
busyGuardOff(flag) == FALSE

\* `if vmc.busy` under the mutex, in CallAsync and in Duplicate.
busyGuard(flag) == flag

\* What the goroutine sends once core.Call has returned out.
callResult(out) ==
    IF out.st = "error" THEN VmCallResult(Null, out.err) ELSE VmCallResult(out.val, NoError)

\* VM.CallAsync(ctx, name, args) up to its return.
CallAsync(inv) ==
    /\ Len(futures) < MaxFutures
    /\ IF busyGuard(busy)
       THEN /\ futures' = Append(futures,
                   VmCallFuture(inv, "closed",
                       VmCallResult(Null,
                           GoError("VM is busy; concurrent CallAsync not allowed"))))
            /\ UNCHANGED busy
       ELSE /\ busy' = TRUE
            /\ futures' = Append(futures, VmCallFuture(inv, "start", NoCallResult))
    /\ UNCHANGED <<core, heap, hostLog, pc, call, result, ncalls, dups, twin, parser, lexer, compiling, nest,
                   traced, handles>>

\* A fault for the sensitivity of the cancellation test: the goroutine looks
\* at ctx only after core.Call has been entered.
WorkerBeginLate(i, done) ==
    /\ futures[i].at = "start"
    /\ futures' = [futures EXCEPT ![i].at = IF done THEN "sent" ELSE "run",
                        ![i].res = IF done THEN VmCallResult(Null, GoError("context canceled"))
                                   ELSE @]
    /\ call' = futures[i].inv
    /\ Commit(Unwind(Call([Machine EXCEPT !.log = <<>>, !.traced = NoTrace], futures[i].inv.name,
                          futures[i].inv.args)))
    /\ UNCHANGED <<ncalls, busy, dups, twin, parser, lexer, compiling, handles>>

\* The goroutine up to the dispatch loop of core.Call; done tells whether
\* ctx is cancelled when the goroutine looks at it.
WorkerBegin(i, done) ==
    /\ futures[i].at = "start"
    /\ IF done
       THEN /\ futures' = [futures EXCEPT ![i].at = "sent",
                               ![i].res = VmCallResult(Null, GoError("context canceled"))]
            /\ UNCHANGED <<core, heap, hostLog, pc, call, result, nest, traced>>
       ELSE /\ futures' = [futures EXCEPT ![i].at = "run"]
            /\ call' = futures[i].inv
            /\ Commit(Unwind(Call([Machine EXCEPT !.log = <<>>, !.traced = NoTrace],
                                  futures[i].inv.name,
                                  futures[i].inv.args)))
    /\ UNCHANGED <<ncalls, busy, dups, twin, parser, lexer, compiling, handles>>

\* core.Call has returned: convertRuntimeError and the send on the channel.
WorkerSend(i) ==
    /\ futures[i].at = "run"
    /\ pc = "idle"
    /\ futures' = [futures EXCEPT ![i].at = "sent",
                       ![i].res = callResult(result)]
    /\ UNCHANGED <<core, heap, hostLog, pc, call, result, ncalls, busy, dups, twin, parser, lexer, compiling, nest,
                   traced, handles>>

\* A fault for the sensitivity of the release: busy stays set.
WorkerReleaseKeeping(i) ==
    /\ futures[i].at = "sent"
    /\ futures' = [futures EXCEPT ![i].at = "released"]
    /\ UNCHANGED <<core, heap, hostLog, pc, call, result, ncalls, busy, dups, twin, parser,
                   lexer, compiling, handles, traced, nest>>

\* The deferred functions of the goroutine: busy is cleared, then the
\* channel is closed.
WorkerRelease(i) ==
    /\ futures[i].at = "sent"
    /\ busy' = FALSE
    /\ futures' = [futures EXCEPT ![i].at = "released"]
    /\ UNCHANGED <<core, heap, hostLog, pc, call, result, ncalls, dups, twin, parser, lexer, compiling, nest,
                   traced, handles>>

WorkerClose(i) ==
    /\ futures[i].at = "released"
    /\ futures' = [futures EXCEPT ![i].at = "closed"]
    /\ UNCHANGED <<core, heap, hostLog, pc, call, result, ncalls, busy, dups, twin, parser, lexer, compiling, nest,
                   traced, handles>>

\* VmCallFuture.Await with a context that is not cancelled.
Await(i) ==
    /\ futures[i].res.sent
    /\ ~futures[i].awaited
    /\ futures' = [futures EXCEPT ![i].awaited = TRUE]
    /\ UNCHANGED <<core, heap, hostLog, pc, call, result, ncalls, busy, dups, twin, parser, lexer, compiling, nest,
                   traced, handles>>

\* VM.Duplicate up to core.Duplicate(), and from there to its return.
DuplicateBegin ==
    /\ Len(dups) < MaxDups
    /\ IF busyGuard(busy)
       THEN /\ dups' = Append(dups, [at |-> "rejected",
                                     err |-> "VM is busy; cannot duplicate while running"])
            /\ UNCHANGED busy
       ELSE /\ busy' = TRUE
            /\ dups' = Append(dups, [at |-> "copying", err |-> ""])
    /\ UNCHANGED <<core, heap, hostLog, pc, call, result, ncalls, futures, twin, parser, lexer, compiling, nest,
                   traced, handles>>

DuplicateEnd(i) ==
    /\ dups[i].at = "copying"
    /\ busy' = FALSE
    /\ dups' = [dups EXCEPT ![i].at = "done"]
    /\ UNCHANGED <<core, heap, hostLog, pc, call, result, ncalls, futures, twin, parser, lexer, compiling, nest,
                   traced, handles>>

NextApi ==
    \/ \E inv \in ApiInvocations : CallAsync(inv)
    \/ \E i \in DOMAIN futures, done \in BOOLEAN : WorkerBegin(i, done)
    \/ StepRun
    \/ \E i \in DOMAIN futures : WorkerSend(i)
    \/ \E i \in DOMAIN futures : WorkerRelease(i)
    \/ \E i \in DOMAIN futures : WorkerClose(i)
    \/ \E i \in DOMAIN futures : Await(i)
    \/ DuplicateBegin
    \/ \E i \in DOMAIN dups : DuplicateEnd(i)

SpecApi == Init /\ [][NextApi]_vars

\* The Go scheduler lets a goroutine that can run take its next step: the
\* goroutine of a CallAsync is not held back for ever at any of its
\* positions.
WorkerFairness ==
    /\ WF_vars(\E i \in DOMAIN futures, done \in BOOLEAN : WorkerBegin(i, done))
    /\ WF_vars(StepRun)
    /\ WF_vars(\E i \in DOMAIN futures : WorkerSend(i))
    /\ WF_vars(\E i \in DOMAIN futures : WorkerRelease(i))
    /\ WF_vars(\E i \in DOMAIN futures : WorkerClose(i))

SpecApiFair == SpecApi /\ WorkerFairness

(***************************************************************************)
(* VmFunctionHandle.Call (api.go): the host holds a handle on a function   *)
(* of the VM (AsFunction on a value a call returned) and calls it while    *)
(* the VM is also used through CallAsync.  Call runs in the host's         *)
(* goroutine: it enters core.Run and returns when the dispatch loop ends.  *)
(* When core.Run is entered while the goroutine of a CallAsync is inside   *)
(* its own core.Run, the two run on the same vm.VM without synchronization:*)
(* a data race, whose outcome is any of RaceOutcomes.  pc = "panic" tells  *)
(* that the Go runtime has stopped the process.                            *)
(***************************************************************************)
MaxHandles == 1

HandleInvocations ==
    {Invocation("add", <<Number(1), Number(2)>>), Invocation("setIdx", <<Array(3)>>)}

\* "reset": ResetState and the new frame of the entering Run prevail, and
\* both loops go on from there; "lost": the writes of the loop already
\* running prevail, and both loops go on with its frames; "panic": a slice
\* is seen half-written and the runtime panics.
RaceOutcomes == {"reset", "lost", "panic"}

InsideRun == {j \in DOMAIN handles : handles[j].at = "run"}

\* VmFunctionHandle.Call up to the dispatch loop of core.Run.
HandleBegin(inv) ==
    /\ Len(handles) < MaxHandles
    /\ pc # "panic"
    /\ handles' = Append(handles, [inv |-> inv, at |-> "run", res |-> NoCallResult])
    /\ \E outcome \in IF pc = "idle" THEN {"reset"} ELSE RaceOutcomes :
          IF outcome = "reset"
          THEN /\ call' = inv
               /\ Commit(Unwind(Run([Machine EXCEPT !.log = <<>>, !.traced = NoTrace],
                                    core.globals[inv.name].n, inv.args)))
          ELSE /\ pc' = IF outcome = "panic" THEN "panic" ELSE pc
               /\ UNCHANGED <<core, heap, hostLog, call, result, nest, traced>>
    /\ UNCHANGED <<ncalls, busy, futures, dups, twin, parser, lexer, compiling>>

\* core.Run has returned: convertRuntimeError and the return of Call.
HandleReturn(j) ==
    /\ handles[j].at = "run"
    /\ pc = "idle"
    /\ handles' = [handles EXCEPT ![j].at = "returned", ![j].res = callResult(result)]
    /\ UNCHANGED <<core, heap, hostLog, pc, call, result, ncalls, busy, futures, dups, twin,
                   parser, lexer, compiling, traced, nest>>

\* The goroutine of a CallAsync enters core.Call while no handle call is
\* inside core.Run.
NextHandle ==
    \/ \E inv \in HandleInvocations : CallAsync(inv)
    \/ \E i \in DOMAIN futures, done \in BOOLEAN : InsideRun = {} /\ WorkerBegin(i, done)
    \/ StepRun
    \/ \E i \in DOMAIN futures : WorkerSend(i)
    \/ \E i \in DOMAIN futures : WorkerRelease(i)
    \/ \E i \in DOMAIN futures : WorkerClose(i)
    \/ \E inv \in HandleInvocations : HandleBegin(inv)
    \/ \E j \in DOMAIN handles : HandleReturn(j)

SpecHandle == Init /\ [][NextHandle]_vars

(***************************************************************************)
(* VM.Duplicate (duplicate.go).  Both VMs allocate from one Go heap, so    *)
(* the clones are new entries of the heap sequences.  The clone state cs   *)
(* carries the machine, the five maps from an original to its clone,       *)
(* globals (dup.globals as filled so far) and ret, what the call just      *)
(* made returned.                                                          *)
(***************************************************************************)
ZeroBase == -1

newCloneState(m) ==
    [m |-> m, arrays |-> <<>>, objects |-> <<>>, functions |-> <<>>, upvalues |-> <<>>,
     iterators |-> <<>>, globals |-> <<>>, ret |-> Null]

\* A fault for the sensitivity of C19: no array is found in the map again.
sliceKeyNil(m, id) == 0

\* reflect's Pointer of the slice, 0 for nil: the address of the backing
\* array, which a zero-length array made by make does not have (all of
\* them carry the runtime's one zero-size address).
sliceKey(m, id) ==
    IF id = 0 THEN 0 ELSE IF m.arrs[id] = <<>> THEN ZeroBase ELSE id

\* reflect's Pointer of the map, 0 for nil.
mapKey(m, id) == id

Return(cs, x) == [cs EXCEPT !.ret = x]

\* The one left of a range over a map; the order changes where the clones
\* are allocated and nothing else.
NextKey(todo) == CHOOSE k \in todo : TRUE

\* out := make([]Value, len(v.Arr)); cs.arrays[key] = out
makeArray(cs, src) ==
    [cs EXCEPT !.m.arrs = Append(@, [i \in 1..Len(cs.m.arrs[src]) |-> Null]),
               !.arrays = IF sliceKey(cs.m, src) # 0
                          THEN (sliceKey(cs.m, src) :> Len(cs.m.arrs) + 1) @@ @ ELSE @]

storeElement(cs, out, i) == [cs EXCEPT !.m.arrs[out][i] = cs.ret]

\* out := make(map[string]Value, len(v.Obj)); cs.objects[key] = out
makeObject(cs, src) ==
    [cs EXCEPT !.m.objs = Append(@, <<>>),
               !.objects = IF mapKey(cs.m, src) # 0
                           THEN (mapKey(cs.m, src) :> Len(cs.m.objs) + 1) @@ @ ELSE @]

storeField(cs, out, k) == [cs EXCEPT !.m.objs[out] = (k :> cs.ret) @@ @]

\* out := &Function{...}; cs.functions[fn] = out; out.Upvalues = make(...)
makeFunction(cs, fn) ==
    [cs EXCEPT !.m.funcs = Append(@, newFunction(cs.m.funcs[fn].Proto, cs.m.funcs[fn].Name,
                                                 [i \in DOMAIN cs.m.funcs[fn].Upvalues |-> 0],
                                                 cs.m.funcs[fn].Native)),
               !.functions = (fn :> Len(cs.m.funcs) + 1) @@ @]

storeUpvalue(cs, out, i) == [cs EXCEPT !.m.funcs[out].Upvalues[i] = cs.ret]

\* out := &upvalue{}; cs.upvalues[uv] = out
makeUpvalue(cs, uv) ==
    [cs EXCEPT !.m.cells = Append(@, [open |-> FALSE, l |-> 0, slot |-> 0, closed |-> Null]),
               !.upvalues = (uv :> Len(cs.m.cells) + 1) @@ @]

storeClosed(cs, out) == [cs EXCEPT !.m.cells[out].closed = cs.ret]

\* out := &Iterator{index: it.index}; cs.iterators[it] = out
makeIterator(cs, it) ==
    [cs EXCEPT !.m.iters = Append(@, [arr |-> 0, obj |-> 0, keys |-> <<>>,
                                      index |-> cs.m.iters[it].index]),
               !.iterators = (it :> Len(cs.m.iters) + 1) @@ @]

storeIterArr(cs, out) == [cs EXCEPT !.m.iters[out].arr = cs.ret.n]

storeIterObj(cs, it, out) ==
    [cs EXCEPT !.m.iters[out].obj = cs.ret.n, !.m.iters[out].keys = cs.m.iters[it].keys]

RECURSIVE cloneValue(_, _)
RECURSIVE cloneElements(_, _, _, _)
RECURSIVE cloneFields(_, _, _, _)
RECURSIVE cloneFunction(_, _)
RECURSIVE cloneUpvalues(_, _, _, _)
RECURSIVE cloneUpvalue(_, _)
RECURSIVE cloneIterator(_, _)

\* for i := range v.Arr { out[i] = cs.cloneValue(v.Arr[i]) }
cloneElements(cs, src, out, i) ==
    IF i > Len(cs.m.arrs[src]) THEN cs
    ELSE cloneElements(storeElement(cloneValue(cs, cs.m.arrs[src][i]), out, i),
                       src, out, i + 1)

\* for k, val := range v.Obj { out[k] = cs.cloneValue(val) }
cloneFields(cs, src, out, todo) ==
    IF todo = {} THEN cs
    ELSE cloneFields(storeField(cloneValue(cs, cs.m.objs[src][NextKey(todo)]),
                                out, NextKey(todo)),
                     src, out, todo \ {NextKey(todo)})

\* for i, uv := range fn.Upvalues { out.Upvalues[i] = cs.cloneUpvalue(uv) }
cloneUpvalues(cs, fn, out, i) ==
    IF i > Len(cs.m.funcs[fn].Upvalues) THEN cs
    ELSE cloneUpvalues(storeUpvalue(cloneUpvalue(cs, cs.m.funcs[fn].Upvalues[i]), out, i),
                       fn, out, i + 1)

\* ret is the clone's index.
cloneFunction(cs, fn) ==
    IF fn = 0 THEN Return(cs, 0)
    ELSE IF fn \in DOMAIN cs.functions THEN Return(cs, cs.functions[fn])
    ELSE Return(cloneUpvalues(makeFunction(cs, fn), fn, Len(cs.m.funcs) + 1, 1),
                Len(cs.m.funcs) + 1)

\* ret is the clone's index; an open upvalue is read through its location
\* and its clone is closed.
cloneUpvalue(cs, uv) ==
    IF uv = 0 THEN Return(cs, 0)
    ELSE IF uv \in DOMAIN cs.upvalues THEN Return(cs, cs.upvalues[uv])
    ELSE Return(storeClosed(cloneValue(makeUpvalue(cs, uv), UpvalueGet(cs.m, uv)),
                            Len(cs.m.cells) + 1),
                Len(cs.m.cells) + 1)

cloneIterArr(cs, it, out) ==
    IF cs.m.iters[it].arr = 0 THEN cs
    ELSE storeIterArr(cloneValue(cs, Array(cs.m.iters[it].arr)), out)

cloneIterObj(cs, it, out) ==
    IF cs.m.iters[it].obj = 0 THEN cs
    ELSE storeIterObj(cloneValue(cs, Object(cs.m.iters[it].obj)), it, out)

\* ret is the clone's index.
cloneIterator(cs, it) ==
    IF it = 0 THEN Return(cs, 0)
    ELSE IF it \in DOMAIN cs.iterators THEN Return(cs, cs.iterators[it])
    ELSE Return(cloneIterObj(cloneIterArr(makeIterator(cs, it), it, Len(cs.m.iters) + 1),
                             it, Len(cs.m.iters) + 1),
                Len(cs.m.iters) + 1)

\* ret is the clone of v.
cloneValue(cs, v) ==
    CASE v.k = "array" ->
           IF v.n = 0 THEN Return(cs, v)
           ELSE IF sliceKey(cs.m, v.n) # 0 /\ sliceKey(cs.m, v.n) \in DOMAIN cs.arrays
           THEN Return(cs, [v EXCEPT !.n = cs.arrays[sliceKey(cs.m, v.n)]])
           ELSE Return(cloneElements(makeArray(cs, v.n), v.n, Len(cs.m.arrs) + 1, 1),
                       [v EXCEPT !.n = Len(cs.m.arrs) + 1])
      [] v.k = "object" ->
           IF v.n = 0 THEN Return(cs, v)
           ELSE IF mapKey(cs.m, v.n) # 0 /\ mapKey(cs.m, v.n) \in DOMAIN cs.objects
           THEN Return(cs, [v EXCEPT !.n = cs.objects[mapKey(cs.m, v.n)]])
           ELSE Return(cloneFields(makeObject(cs, v.n), v.n, Len(cs.m.objs) + 1,
                                   DOMAIN cs.m.objs[v.n]),
                       [v EXCEPT !.n = Len(cs.m.objs) + 1])
      [] v.k = "function" ->
           IF v.n = 0 THEN Return(cs, v)
           ELSE Return(cloneFunction(cs, v.n), [v EXCEPT !.n = cloneFunction(cs, v.n).ret])
      [] v.k = "iterator" ->
           IF v.n = 0 THEN Return(cs, v)
           ELSE Return(cloneIterator(cs, v.n), [v EXCEPT !.n = cloneIterator(cs, v.n).ret])
      [] OTHER -> Return(cs, v)

storeGlobal(cs, name) == [cs EXCEPT !.globals = (name :> cs.ret) @@ @]

\* for name, val := range vm.globals { dup.globals[name] = clone.cloneValue(val) }
RECURSIVE cloneGlobals(_, _)
cloneGlobals(cs, src) ==
    IF DOMAIN cs.globals = DOMAIN src THEN cs
    ELSE cloneGlobals(storeGlobal(cloneValue(cs, src[NextKey(DOMAIN src \ DOMAIN cs.globals)]),
                                  NextKey(DOMAIN src \ DOMAIN cs.globals)),
                      src)

\* A fault for the sensitivity of C18: the globals are copied as they are.
DuplicateShallow(m) == [newCloneState(m) EXCEPT !.globals = m.globals]

\* vm.Duplicate: the clone state once the globals are cloned.
Duplicate(m) == cloneGlobals(newCloneState(m), m.globals)

\* dup as Duplicate returns it.
Duplicated(m, cs) ==
    [New EXCEPT !.maxFrames = m.maxFrames, !.instLimit = m.instLimit,
                !.globals = cs.globals]

CloneMaps(cs) ==
    [arrays |-> cs.arrays, objects |-> cs.objects, functions |-> cs.functions,
     upvalues |-> cs.upvalues, iterators |-> cs.iterators]

(***************************************************************************)
(* The state machine of a VM and its duplicate: the host calls global      *)
(* functions of either VM, one call at a time, and duplicates the first VM *)
(* once, between two calls.  twin.core is the VM that is not executing,    *)
(* twin.active tells which one core is, and twin.clone keeps the maps of   *)
(* the clone state for the properties.                                     *)
(***************************************************************************)
MaxDupCalls == 3

DupInvocations ==
    {Invocation(f, <<>>) : f \in {"build", "buildOpen", "poke", "pokeOpen"}}

\* vm.Call(name, args) on the VM named by side, up to the dispatch loop.
StartOn(side, inv) ==
    /\ pc = "idle"
    /\ ncalls < MaxDupCalls
    /\ side = "dup" => twin.made
    /\ call' = inv
    /\ ncalls' = ncalls + 1
    /\ IF side = twin.active
       THEN /\ Commit(Unwind(Call([Machine EXCEPT !.log = <<>>, !.traced = NoTrace],
                                  inv.name, inv.args)))
            /\ UNCHANGED twin
       ELSE /\ Commit(Unwind(Call([MachineOf(twin.core) EXCEPT !.log = <<>>, !.traced = NoTrace],
                                  inv.name, inv.args)))
            /\ twin' = [twin EXCEPT !.active = side, !.core = core]
    /\ UNCHANGED <<busy, futures, dups, parser, lexer, compiling, handles>>

\* vm.Duplicate() on the first VM, between two calls.
DuplicateCore ==
    /\ pc = "idle"
    /\ ~twin.made
    /\ heap' = [f \in DOMAIN heap |-> Duplicate(Machine).m[f]]
    /\ twin' = [made |-> TRUE, active |-> "base",
                core |-> Duplicated(core, Duplicate(Machine)),
                clone |-> CloneMaps(Duplicate(Machine))]
    /\ UNCHANGED <<core, hostLog, pc, call, result, ncalls, busy, futures, dups, parser, lexer, compiling,
                   nest, traced, handles>>

NextDup ==
    \/ \E side \in {"base", "dup"}, inv \in DupInvocations : StartOn(side, inv)
    \/ StepRun
    \/ DuplicateCore

SpecDup == Init /\ [][NextDup]_vars

(***************************************************************************)
(* The parser (parser.go).  A parser record p holds the token types the    *)
(* lexer yields before EOF (toks), the index of curToken (pos; peekToken   *)
(* is the next one, and the lexer yields EOF again and again at the end),  *)
(* the number of messages in p.errors, and nil: whether the parse function *)
(* that returned last returned nil.  The nodes of the tree are left out:   *)
(* no branch of the parser looks at more than their being nil.  hang       *)
(* tells that the call is in a loop it never leaves: a turn of             *)
(* parseBlock's loop that ends at the token it began at repeats itself,    *)
(* since nothing but the two tokens decides what a turn does.              *)
(***************************************************************************)
lowest == 1
assignPrecedence == 2
orPrecedence == 3
andPrecedence == 4
equalPrecedence == 5
lessGreaterPrecedence == 6
sumPrecedence == 7
productPrecedence == 8
prefixPrecedence == 9
callPrecedence == 10

\* precedences[t], or lowest.
Precedence(t) ==
    CASE t \in {"ASSIGN", "DEFINE"} -> assignPrecedence
      [] t = "OROR" -> orPrecedence
      [] t = "ANDAND" -> andPrecedence
      [] t \in {"EQUAL", "NOTEQUAL"} -> equalPrecedence
      [] t \in {"LESS", "LESSEQUAL", "GREATER", "GREATEREQUAL"} -> lessGreaterPrecedence
      [] t \in {"PLUS", "MINUS"} -> sumPrecedence
      [] t \in {"STAR", "SLASH"} -> productPrecedence
      [] t \in {"LPAREN", "LBRACKET", "DOT"} -> callPrecedence
      [] OTHER -> lowest

curToken(p) == IF p.pos <= Len(p.toks) THEN p.toks[p.pos] ELSE "EOF"
peekToken(p) == IF p.pos + 1 <= Len(p.toks) THEN p.toks[p.pos + 1] ELSE "EOF"

nextToken(p) == IF p.hang \/ p.pos > Len(p.toks) THEN p ELSE [p EXCEPT !.pos = @ + 1]

\* Parser.errorf
parserErrorf(p) == IF p.hang THEN p ELSE [p EXCEPT !.errors = @ + 1]

peekPrecedence(p) == Precedence(peekToken(p))
curPrecedence(p) == Precedence(curToken(p))

isEndOfExpression(t) == t \in {"NEWLINE", "RBRACE", "EOF", "COMMA", "RPAREN", "RBRACKET"}
isEndOfStatement(t) == t \in {"NEWLINE", "RBRACE", "EOF"}

\* `return nil` and the return of a node.
NilNode(p) == [p EXCEPT !.nil = TRUE]
SomeNode(p) == [p EXCEPT !.nil = FALSE]

\* expectPeek(t): p after the call; the test itself is peekToken(p) = t.
expectPeek(p, t) == IF peekToken(p) = t THEN p ELSE parserErrorf(p)

RECURSIVE skipNewlines(_)
skipNewlines(p) ==
    IF ~p.hang /\ curToken(p) = "NEWLINE" THEN skipNewlines(nextToken(p)) ELSE p

RECURSIVE skipPeekNewlines(_)
skipPeekNewlines(p) ==
    IF ~p.hang /\ peekToken(p) = "NEWLINE" THEN skipPeekNewlines(nextToken(p)) ELSE p

consumeRParen(p) ==
    IF curToken(p) = "RPAREN" THEN nextToken(p)
    ELSE IF peekToken(p) = "RPAREN" THEN nextToken(nextToken(p))
    ELSE parserErrorf(p)

\* `if p.curToken.Type != token.EOF { p.nextToken() }`
stepPast(p) == IF curToken(p) # "EOF" THEN nextToken(p) ELSE p

\* `if p.curToken.Type != token.LBrace && p.peekToken.Type == token.LBrace`
toLBrace(p) ==
    IF curToken(p) # "LBRACE" /\ peekToken(p) = "LBRACE" THEN nextToken(p) ELSE p

\* A chain of `if !p.expectPeek(t) { return ... }; p.nextToken()`.
RECURSIVE expectEach(_, _)
expectEach(p, ts) ==
    IF ts = <<>> THEN p
    ELSE IF peekToken(p) # Head(ts) THEN expectPeek(p, Head(ts))
    ELSE expectEach(nextToken(p), Tail(ts))

parseForBinding(p) ==
    CASE curToken(p) = "VAR" -> nextToken(p)
      [] curToken(p) = "LBRACKET" -> expectEach(p, <<"VAR", "COMMA", "VAR", "RBRACKET">>)
      [] OTHER -> parserErrorf(p)

RECURSIVE paramLoop(_)
paramLoop(p) ==
    IF p.hang \/ peekToken(p) # "COMMA" THEN p
    ELSE IF curToken(nextToken(nextToken(p))) # "VAR"
    THEN parserErrorf(nextToken(nextToken(p)))
    ELSE paramLoop(nextToken(nextToken(p)))

parseParamList(p) ==
    IF curToken(p) = "RPAREN" THEN p
    ELSE IF curToken(p) # "VAR" THEN parserErrorf(p)
    ELSE paramLoop(p)

parseObjectKey(p) ==
    IF curToken(p) \in {"IDENT", "STRING", "NUMBER"} THEN p ELSE parserErrorf(p)

RECURSIVE parseStatement(_)
RECURSIVE parseBlock(_)
RECURSIVE blockLoop(_)
RECURSIVE parseExpression(_, _)
RECURSIVE infixLoop(_, _)
RECURSIVE ifRest(_)
RECURSIVE listLoop(_, _)
RECURSIVE elementsLoop(_)
RECURSIVE objectLoop(_)

\* One turn of parseBlock's loop has led from p to q.
blockTurn(p, q) ==
    IF q.hang THEN q
    ELSE IF q.pos = p.pos THEN [q EXCEPT !.hang = TRUE]
    ELSE blockLoop(q)

blockLoop(p) ==
    IF p.hang \/ curToken(p) \in {"RBRACE", "EOF"} THEN p
    ELSE blockTurn(p, skipNewlines(parseStatement(p)))

closeBlock(p) == SomeNode(IF curToken(p) = "RBRACE" THEN nextToken(p) ELSE p)

parseBlock(p) ==
    IF p.hang THEN p ELSE closeBlock(blockLoop(skipNewlines(nextToken(p))))

\* skipNewlines, the step to the brace and parseBlock, as every statement
\* with a body has them.
parseBody(p) == parseBlock(toLBrace(skipNewlines(p)))

parseReturn(p) ==
    SomeNode(stepPast(IF isEndOfStatement(curToken(nextToken(p))) THEN nextToken(p)
                    ELSE parseExpression(nextToken(p), assignPrecedence - 1)))

\* parseIf from the elseif clauses on.
ifRest(p) ==
    IF p.hang THEN p
    ELSE IF curToken(p) = "ELSEIF"
    THEN IF peekToken(p) # "LPAREN" THEN SomeNode(expectPeek(p, "LPAREN"))
         ELSE ifRest(skipNewlines(parseBody(consumeRParen(
                                      parseExpression(nextToken(p), lowest)))))
    ELSE IF curToken(p) = "ELSE" THEN SomeNode(parseBody(nextToken(p)))
    ELSE SomeNode(p)

parseIf(p) ==
    IF peekToken(p) # "LPAREN" THEN NilNode(expectPeek(p, "LPAREN"))
    ELSE ifRest(skipNewlines(parseBody(consumeRParen(parseExpression(nextToken(p), lowest)))))

parseWhile(p) ==
    IF peekToken(p) # "LPAREN" THEN NilNode(expectPeek(p, "LPAREN"))
    ELSE SomeNode(parseBody(consumeRParen(parseExpression(nextToken(p), lowest))))

\* parseFor from the iterable on.
forBody(p) == SomeNode(parseBody(consumeRParen(parseExpression(p, lowest))))

\* parseFor once the binding is parsed.
forIn(p) ==
    IF curToken(p) = "IN" THEN forBody(nextToken(p))
    ELSE IF peekToken(p) = "IN" THEN forBody(nextToken(nextToken(p)))
    ELSE SomeNode(parserErrorf(p))

parseFor(p) ==
    IF peekToken(p) # "LPAREN" THEN NilNode(expectPeek(p, "LPAREN"))
    ELSE forIn(parseForBinding(nextToken(nextToken(p))))

\* parseFuncDecl and parseFuncExpr from the parameters on; p is at `(`.
funcRest(p) == SomeNode(parseBody(nextToken(parseParamList(nextToken(p)))))

parseFuncDecl(p) ==
    IF peekToken(p) # "IDENT" THEN NilNode(expectPeek(p, "IDENT"))
    ELSE IF peekToken(nextToken(p)) # "LPAREN" THEN NilNode(expectPeek(nextToken(p), "LPAREN"))
    ELSE funcRest(nextToken(nextToken(p)))

parseFuncExpr(p) ==
    IF peekToken(p) # "LPAREN" THEN NilNode(expectPeek(p, "LPAREN"))
    ELSE funcRest(nextToken(p))

parseExprStatement(p) == SomeNode(stepPast(parseExpression(p, lowest)))

parseStatement(p) ==
    IF p.hang THEN p
    ELSE CASE curToken(p) = "FUNC" -> parseFuncDecl(p)
           [] curToken(p) = "RETURN" -> parseReturn(p)
           [] curToken(p) = "IF" -> parseIf(p)
           [] curToken(p) = "WHILE" -> parseWhile(p)
           [] curToken(p) = "FOR" -> parseFor(p)
           [] curToken(p) = "LBRACE" -> parseBlock(p)
           [] OTHER -> parseExprStatement(p)

\* The parenthesised expression once its inside is parsed: nil stays as
\* the inside left it.
closeParen(p) ==
    IF peekToken(p) # "RPAREN" THEN NilNode(expectPeek(p, "RPAREN")) ELSE nextToken(p)

\* The right operand decides whether the expression is nil.
parsePrefixExpression(p) == parseExpression(nextToken(p), prefixPrecedence)
parseInfixExpression(p) == parseExpression(nextToken(p), curPrecedence(p))

parseAssignExpression(p) == SomeNode(parseExpression(nextToken(p), assignPrecedence - 1))

\* The end of a turn of parseExpressionList's loop that met no comma.
listEnd(p, end) ==
    IF curToken(IF peekToken(p) = end THEN nextToken(p) ELSE p) # end
    THEN parserErrorf(IF peekToken(p) = end THEN nextToken(p) ELSE p)
    ELSE IF peekToken(p) = end THEN nextToken(p) ELSE p

\* A turn of parseExpressionList's loop once the expression is parsed.
listTurn(p, end) ==
    IF p.nil THEN p
    ELSE IF peekToken(p) = "COMMA"
    THEN IF curToken(nextToken(nextToken(p))) = end
         THEN parserErrorf(nextToken(nextToken(p)))
         ELSE listLoop(nextToken(nextToken(p)), end)
    ELSE listEnd(p, end)

listLoop(p, end) == IF p.hang THEN p ELSE listTurn(parseExpression(p, lowest), end)

parseExpressionList(p, end) == IF curToken(p) = end THEN p ELSE listLoop(p, end)

parseCallExpression(p) == SomeNode(parseExpressionList(nextToken(p), "RPAREN"))

parseMemberExpression(p) ==
    IF peekToken(p) # "IDENT" THEN NilNode(expectPeek(p, "IDENT")) ELSE SomeNode(nextToken(p))

closeIndex(p) ==
    IF peekToken(p) # "RBRACKET" THEN NilNode(expectPeek(p, "RBRACKET"))
    ELSE SomeNode(nextToken(p))

parseIndexExpression(p) == closeIndex(parseExpression(nextToken(p), lowest))

\* `for p.peekToken.Type == token.Comma` of parseArrayOrRange.
elementsLoop(p) ==
    IF p.hang \/ peekToken(p) # "COMMA" THEN p
    ELSE IF curToken(nextToken(nextToken(p))) = "RBRACKET" THEN nextToken(nextToken(p))
    ELSE elementsLoop(parseExpression(nextToken(nextToken(p)), lowest))

arrayEnd(p) ==
    IF curToken(p) = "RBRACKET" THEN SomeNode(nextToken(p))
    ELSE IF peekToken(p) # "RBRACKET" THEN SomeNode(parserErrorf(p))
    ELSE SomeNode(nextToken(p))

rangeEnd(p) ==
    IF peekToken(p) # "RBRACKET" THEN SomeNode(parserErrorf(p)) ELSE SomeNode(nextToken(p))

\* parseArrayOrRange once the first element is parsed.
arrayRest(p) ==
    IF peekToken(p) = "RANGE"
    THEN rangeEnd(parseExpression(nextToken(nextToken(p)), lowest))
    ELSE arrayEnd(elementsLoop(p))

parseArrayOrRange(p) ==
    IF curToken(nextToken(p)) = "RBRACKET" THEN SomeNode(nextToken(nextToken(p)))
    ELSE arrayRest(parseExpression(nextToken(p), lowest))

\* A turn of parseObjectLiteral's loop once the field's value is parsed.
fieldEnd(p) ==
    IF peekToken(p) = "RBRACE" THEN nextToken(p)
    ELSE IF peekToken(p) # "COMMA" THEN parserErrorf(p)
    ELSE IF curToken(nextToken(nextToken(p))) = "RBRACE" THEN nextToken(nextToken(p))
    ELSE objectLoop(nextToken(nextToken(p)))

\* A turn of the loop once the key is parsed.
fieldValue(p) ==
    IF peekToken(p) # "COLON" THEN expectPeek(p, "COLON")
    ELSE fieldEnd(skipPeekNewlines(skipNewlines(
             parseExpression(skipNewlines(nextToken(nextToken(p))), lowest))))

\* One turn of the loop once the newlines are skipped.
field(p) ==
    IF curToken(p) = "RBRACE" THEN p
    ELSE fieldValue(skipPeekNewlines(parseObjectKey(p)))

objectLoop(p) == IF p.hang THEN p ELSE field(skipNewlines(p))

parseObjectLiteral(p) ==
    IF curToken(nextToken(p)) = "RBRACE" THEN SomeNode(nextToken(nextToken(p)))
    ELSE SomeNode(objectLoop(skipNewlines(nextToken(p))))

\* The switch of parseExpression's loop; p is at the operator.
infix(p) ==
    CASE curToken(p) \in {"ASSIGN", "DEFINE"} -> parseAssignExpression(p)
      [] curToken(p) \in {"PLUS", "MINUS", "STAR", "SLASH", "EQUAL", "NOTEQUAL", "LESS",
                          "LESSEQUAL", "GREATER", "GREATEREQUAL", "ANDAND", "OROR"} ->
           parseInfixExpression(p)
      [] curToken(p) = "LPAREN" -> parseCallExpression(p)
      [] curToken(p) = "DOT" -> parseMemberExpression(p)
      [] curToken(p) = "LBRACKET" -> parseIndexExpression(p)
      [] OTHER -> p

infixLoop(p, precedence) ==
    IF p.hang \/ p.nil THEN p
    ELSE IF isEndOfExpression(peekToken(p)) \/ ~(precedence < peekPrecedence(p)) THEN p
    ELSE infixLoop(infix(nextToken(p)), precedence)

\* The first switch of parseExpression.
prefix(p) ==
    CASE curToken(p) \in {"IDENT", "VAR", "NUMBER", "STRING", "TRUE", "FALSE", "NULL"} ->
           SomeNode(p)
      [] curToken(p) = "FUNC" -> parseFuncExpr(p)
      [] curToken(p) = "LPAREN" -> closeParen(parseExpression(nextToken(p), lowest))
      [] curToken(p) = "LBRACKET" -> parseArrayOrRange(p)
      [] curToken(p) = "LBRACE" -> parseObjectLiteral(p)
      [] curToken(p) \in {"BANG", "MINUS", "PLUS"} -> parsePrefixExpression(p)
      [] OTHER -> NilNode(parserErrorf(p))

parseExpression(p, precedence) ==
    IF p.hang THEN NilNode(p) ELSE infixLoop(prefix(p), precedence)

\* parser.New(l): the first two tokens are read.
NewParser(toks) ==
    [toks |-> toks, pos |-> 1, errors |-> 0, hang |-> FALSE, nil |-> FALSE,
     statements |-> 0, phase |-> "parsing"]

\* The statement is appended unless it is nil.
appendStatement(p) == IF p.nil \/ p.hang THEN p ELSE [p EXCEPT !.statements = @ + 1]

\* The body of ParseProgram's loop, from a token that is not EOF.
programTurn(p) ==
    IF curToken(skipNewlines(p)) = "EOF" THEN [skipNewlines(p) EXCEPT !.phase = "done"]
    ELSE skipNewlines(appendStatement(parseStatement(skipNewlines(p))))

(***************************************************************************)
(* The state machine of one ParseProgram call: a step is a turn of its     *)
(* loop, or its return.  The token streams are the ones the lexer can      *)
(* yield: it yields no Newline inside ( or [, nor after a token that       *)
(* cannot end a statement.  ParseProgram has no bound on its errors; the   *)
(* machine stops at MaxErrors, which no call that returns comes near.      *)
(***************************************************************************)
MaxTokens == 3
MaxErrors == 8

TokenTypes ==
    {"IF", "WHILE", "FOR", "FUNC", "IDENT", "VAR", "LPAREN", "RPAREN", "LBRACE", "RBRACE",
     "IN", "NEWLINE"}

\* newlineEligible(l.lastToken)
newlineEligible(t) ==
    t \in {"IDENT", "VAR", "NUMBER", "STRING", "TRUE", "FALSE", "NULL", "RPAREN", "RBRACKET",
           "RBRACE", "RETURN"}

\* l.parenDepth or l.bracketDepth once the first n tokens are read.
RECURSIVE Depth(_, _, _, _)
Depth(toks, n, open, close) ==
    IF n = 0 THEN 0
    ELSE IF toks[n] = open THEN Depth(toks, n - 1, open, close) + 1
    ELSE IF toks[n] = close /\ Depth(toks, n - 1, open, close) > 0
    THEN Depth(toks, n - 1, open, close) - 1
    ELSE Depth(toks, n - 1, open, close)

Lexable(toks) ==
    \A i \in DOMAIN toks :
        toks[i] = "NEWLINE" =>
            /\ i > 1
            /\ newlineEligible(toks[i - 1])
            /\ Depth(toks, i - 1, "LPAREN", "RPAREN") = 0
            /\ Depth(toks, i - 1, "LBRACKET", "RBRACKET") = 0

Inputs == {toks \in UNION {[1..n -> TokenTypes] : n \in 0..MaxTokens} : Lexable(toks)}

\* parser.New(l) for the lexer of some input.
ParseNew ==
    /\ parser.phase = "none"
    /\ \E toks \in Inputs : parser' = NewParser(toks)
    /\ UNCHANGED <<core, heap, hostLog, pc, call, result, ncalls, busy, futures, dups, twin,
                   lexer, compiling, nest, traced, handles>>

\* One turn of `for p.curToken.Type != token.EOF`.
ParseTurn ==
    /\ parser.phase = "parsing"
    /\ ~parser.hang
    /\ parser.errors < MaxErrors
    /\ curToken(parser) # "EOF"
    /\ parser' = programTurn(parser)
    /\ UNCHANGED <<core, heap, hostLog, pc, call, result, ncalls, busy, futures, dups, twin,
                   lexer, compiling, nest, traced, handles>>

\* The loop ends at EOF and ParseProgram returns the program.
ParseReturn ==
    /\ parser.phase = "parsing"
    /\ ~parser.hang
    /\ curToken(parser) = "EOF"
    /\ parser' = [parser EXCEPT !.phase = "done"]
    /\ UNCHANGED <<core, heap, hostLog, pc, call, result, ncalls, busy, futures, dups, twin,
                   lexer, compiling, nest, traced, handles>>

NextParse == ParseNew \/ ParseTurn \/ ParseReturn

\* ParseProgram runs on once it is called: a step of it that can be taken
\* is taken.
SpecParse == Init /\ [][NextParse]_vars /\ WF_vars(ParseTurn \/ ParseReturn)

(***************************************************************************)
(* The lexer (lexer.go).  The input is a sequence of characters, pos the   *)
(* index of l.ch, and "" stands for the byte 0 the lexer reads beyond the  *)
(* end.  tok is the type of the token NextToken returned last; line,       *)
(* column and the literals are left out, no branch looks at them.          *)
(***************************************************************************)
ch(l) == IF l.pos <= Len(l.input) THEN l.input[l.pos] ELSE ""
peekChar(l) == IF l.pos + 1 <= Len(l.input) THEN l.input[l.pos + 1] ELSE ""

readChar(l) == IF l.pos > Len(l.input) THEN l ELSE [l EXCEPT !.pos = @ + 1]

isLetter(c) == c \in {"i", "f", "x", "_"}
isDigit(c) == c \in {"0", "1"}

\* token.LookupIdent for the words the letters above spell.
LookupIdent(lit) == IF lit = <<"i", "f">> THEN "IF" ELSE "IDENT"

\* `return tok` of a token that did not pass through finishToken.
makeToken(l, t) == [l EXCEPT !.tok = t]

finishToken(l, t) == [l EXCEPT !.lastToken = t, !.tok = t]

RECURSIVE skipWhitespace(_)
skipWhitespace(l) ==
    IF ch(l) \in {" ", "\t", "\r"} THEN skipWhitespace(readChar(l)) ELSE l

\* A fault for the sensitivity of the newline rule: the depths are not
\* looked at.
consumeNewlineAnyDepth(l) ==
    IF newlineEligible(l.lastToken)
    THEN [readChar(l) EXCEPT !.lastToken = "NEWLINE", !.tok = "NEWLINE"]
    ELSE [readChar(l) EXCEPT !.tok = ""]

\* consumeNewline: tok = "" stands for ok = false.
consumeNewline(l) ==
    IF l.parenDepth = 0 /\ l.bracketDepth = 0 /\ newlineEligible(l.lastToken)
    THEN [readChar(l) EXCEPT !.lastToken = "NEWLINE", !.tok = "NEWLINE"]
    ELSE [readChar(l) EXCEPT !.tok = ""]

RECURSIVE skipLineComment(_)
skipLineComment(l) ==
    IF ch(l) # "" /\ ch(l) # "\n" THEN skipLineComment(readChar(l)) ELSE l

\* The loop of skipBlockComment.
RECURSIVE blockCommentLoop(_)
blockCommentLoop(l) ==
    IF ch(l) = "" THEN l
    ELSE IF ch(l) = "*" /\ peekChar(l) = "/" THEN readChar(readChar(l))
    ELSE blockCommentLoop(readChar(l))

skipBlockComment(l) == blockCommentLoop(readChar(readChar(l)))

\* The loop of readIdentifier, lit the letters read so far.
RECURSIVE identifierLoop(_, _)
identifierLoop(l, lit) ==
    IF isLetter(ch(l)) \/ isDigit(ch(l)) THEN identifierLoop(readChar(l), Append(lit, ch(l)))
    ELSE finishToken(l, LookupIdent(lit))

readIdentifier(l) == identifierLoop(l, <<>>)

\* The loops of readVariable and readNumber.
RECURSIVE wordLoop(_)
wordLoop(l) == IF isLetter(ch(l)) \/ isDigit(ch(l)) THEN wordLoop(readChar(l)) ELSE l

RECURSIVE digitLoop(_)
digitLoop(l) == IF isDigit(ch(l)) THEN digitLoop(readChar(l)) ELSE l

readVariable(l) ==
    IF ~isLetter(ch(readChar(l)))
    THEN [readChar(l) EXCEPT !.lastToken = "ILLEGAL", !.tok = "ILLEGAL"]
    ELSE finishToken(wordLoop(readChar(l)), "VAR")

\* readNumber once the digits before the point are read.
fraction(l) ==
    IF ch(l) = "." /\ isDigit(peekChar(l)) THEN digitLoop(readChar(l)) ELSE l

readNumber(l) == finishToken(fraction(digitLoop(l)), "NUMBER")

\* The loop of readString from its readChar on.
RECURSIVE stringLoop(_)
stringLoop(l) ==
    IF ch(readChar(l)) = ""
    THEN [readChar(l) EXCEPT !.lastToken = "ILLEGAL", !.tok = "ILLEGAL"]
    ELSE IF ch(readChar(l)) = "\"" THEN finishToken(readChar(readChar(l)), "STRING")
    ELSE IF ch(readChar(l)) = "\\" THEN stringLoop(readChar(readChar(l)))
    ELSE stringLoop(readChar(l))

readString(l) == stringLoop(l)

\* `case c: if l.peekChar() == next { two characters, token two } token one`
oneOrTwo(l, next, two, one) ==
    IF peekChar(l) = next THEN finishToken(readChar(readChar(l)), two)
    ELSE finishToken(readChar(l), one)

closeDepth(d) == IF d > 0 THEN d - 1 ELSE d

\* The switch of NextToken.
lexSwitch(l) ==
    CASE ch(l) = "=" -> oneOrTwo(l, "=", "EQUAL", "ASSIGN")
      [] ch(l) = ":" -> oneOrTwo(l, "=", "DEFINE", "COLON")
      [] ch(l) = "+" -> finishToken(readChar(l), "PLUS")
      [] ch(l) = "-" -> finishToken(readChar(l), "MINUS")
      [] ch(l) = "*" -> finishToken(readChar(l), "STAR")
      [] ch(l) = "/" -> finishToken(readChar(l), "SLASH")
      [] ch(l) = "!" -> oneOrTwo(l, "=", "NOTEQUAL", "BANG")
      [] ch(l) = "<" -> oneOrTwo(l, "=", "LESSEQUAL", "LESS")
      [] ch(l) = ">" -> oneOrTwo(l, "=", "GREATEREQUAL", "GREATER")
      [] ch(l) = "&" -> oneOrTwo(l, "&", "ANDAND", "ILLEGAL")
      [] ch(l) = "|" -> oneOrTwo(l, "|", "OROR", "ILLEGAL")
      [] ch(l) = "." -> oneOrTwo(l, ".", "RANGE", "DOT")
      [] ch(l) = "," -> finishToken(readChar(l), "COMMA")
      [] ch(l) = "(" -> finishToken([readChar(l) EXCEPT !.parenDepth = @ + 1], "LPAREN")
      [] ch(l) = ")" -> finishToken([readChar(l) EXCEPT !.parenDepth = closeDepth(@)], "RPAREN")
      [] ch(l) = "[" -> finishToken([readChar(l) EXCEPT !.bracketDepth = @ + 1], "LBRACKET")
      [] ch(l) = "]" ->
           finishToken([readChar(l) EXCEPT !.bracketDepth = closeDepth(@)], "RBRACKET")
      [] ch(l) = "{" -> finishToken(readChar(l), "LBRACE")
      [] ch(l) = "}" -> finishToken(readChar(l), "RBRACE")
      [] ch(l) = "\"" -> readString(l)
      [] ch(l) = "$" -> readVariable(l)
      [] isLetter(ch(l)) -> readIdentifier(l)
      [] isDigit(ch(l)) -> readNumber(l)
      [] OTHER -> finishToken(readChar(l), "ILLEGAL")

RECURSIVE NextToken(_)

\* NextToken at a newline, once consumeNewline has returned.
afterNewline(l) == IF l.tok = "NEWLINE" THEN l ELSE NextToken(l)

\* A turn of NextToken's loop once the whitespace is skipped.
lexTurn(l) ==
    IF ch(l) = "\n" THEN afterNewline(consumeNewline(l))
    ELSE IF ch(l) = "" THEN makeToken(l, "EOF")
    ELSE IF ch(l) = "/" /\ peekChar(l) = "/" THEN NextToken(skipLineComment(l))
    ELSE IF ch(l) = "/" /\ peekChar(l) = "*" THEN NextToken(skipBlockComment(l))
    ELSE lexSwitch(l)

NextToken(l) == lexTurn(skipWhitespace(l))

\* lexer.New(input): the first character is read.
NewLexer(input) ==
    [input |-> input, pos |-> 1, parenDepth |-> 0, bracketDepth |-> 0,
     lastToken |-> "NEWLINE", tok |-> "", out |-> <<>>, phase |-> "lexing"]

(***************************************************************************)
(* The state machine of a lexer: the host makes it for some input and      *)
(* calls NextToken until it returns EOF; out lists the tokens returned.    *)
(***************************************************************************)
MaxChars == 4

Chars == {"i", "f", "(", ")", "[", "]", "+", "/", "*", "\"", "\n"}

Sources == UNION {[1..n -> Chars] : n \in 0..MaxChars}

LexNew ==
    /\ lexer.phase = "none"
    /\ \E input \in Sources : lexer' = NewLexer(input)
    /\ UNCHANGED <<core, heap, hostLog, pc, call, result, ncalls, busy, futures, dups, twin,
                   parser, compiling, nest, traced, handles>>

\* What the host keeps of a call of NextToken.
Returned(l) ==
    [l EXCEPT !.out = Append(@, l.tok), !.phase = IF l.tok = "EOF" THEN "done" ELSE "lexing"]

LexNext ==
    /\ lexer.phase = "lexing"
    /\ lexer' = Returned(NextToken(lexer))
    /\ UNCHANGED <<core, heap, hostLog, pc, call, result, ncalls, busy, futures, dups, twin,
                   parser, compiling, nest, traced, handles>>

NextLex == LexNew \/ LexNext

SpecLex == Init /\ [][NextLex]_vars

(***************************************************************************)
(* compiler.Compile, one turn of its loop over prog.Statements at a time.   *)
(* compiling.Functions and compiling.protos are c.module as built so far.   *)
(***************************************************************************)
MaxStatements == 3

\* func f() { return 1 }    func f($a) { return $a }    func g() { }    1
Declarations ==
    {FuncDecl("f", <<>>, <<ReturnStmt(NumberLiteral(1))>>),
     FuncDecl("f", <<"a">>, <<ReturnStmt(Variable("a"))>>),
     FuncDecl("g", <<>>, <<>>),
     ExprStmt(NumberLiteral(1))}

Programs == UNION {[1..n -> Declarations] : n \in 0..MaxStatements}

\* The compiler as Compile holds it between two statements.
CompilerOf(cs) ==
    [fcs |-> <<>>, protos |-> cs.protos, functions |-> cs.Functions, held |-> <<>>,
     err |-> "", source |-> ""]

\* The body of the loop for one statement.
compileStatement(cs, stmt) ==
    IF stmt.t # "FuncDecl"
    THEN [cs EXCEPT !.err = "top-level statements other than func are not supported"]
    ELSE LET c == compileFunction(CompilerOf(cs), stmt)
         IN [cs EXCEPT !.protos = c.protos, !.Functions = c.functions, !.err = c.err,
                       !.next = @ + 1]

CompileNew ==
    /\ compiling.phase = "none"
    /\ \E prog \in Programs : compiling' = [NoCompile EXCEPT !.prog = prog, !.phase = "loop"]
    /\ UNCHANGED <<core, heap, hostLog, pc, call, result, ncalls, busy, futures, dups, twin,
                   parser, lexer, nest, traced, handles>>

CompileTurn ==
    /\ compiling.phase = "loop"
    /\ compiling.err = ""
    /\ compiling.next <= Len(compiling.prog)
    /\ compiling' = compileStatement(compiling, compiling.prog[compiling.next])
    /\ UNCHANGED <<core, heap, hostLog, pc, call, result, ncalls, busy, futures, dups, twin,
                   parser, lexer, nest, traced, handles>>

\* `return nil, err` from inside the loop, `return c.module, nil` after it.
CompileReturn ==
    /\ compiling.phase = "loop"
    /\ compiling.err # "" \/ compiling.next > Len(compiling.prog)
    /\ compiling' = IF compiling.err # ""
                    THEN [compiling EXCEPT !.phase = "done", !.Functions = EmptyMap,
                                           !.protos = <<>>]
                    ELSE [compiling EXCEPT !.phase = "done"]
    /\ UNCHANGED <<core, heap, hostLog, pc, call, result, ncalls, busy, futures, dups, twin,
                   parser, lexer, nest, traced, handles>>

NextCompile == CompileNew \/ CompileTurn \/ CompileReturn

SpecCompile == Init /\ [][NextCompile]_vars

(***************************************************************************)
(* Properties.  Finished(names) tells that an invocation of one of the     *)
(* named functions has just completed, with a value or with an error, and  *)
(* was not cut short by the instruction limit.                             *)
(***************************************************************************)
Failed(msg) == result.st = "error" /\ result.err.Message = msg

Finished(names) ==
    /\ pc = "idle"
    /\ result.st # "none"
    /\ call.name \in names
    /\ ~Failed("instruction limit exceeded")

\* C2: after every complete invocation of Run/Call, whether it ended with a
\* value or with a runtime error, the stack, the frame list and the
\* open-upvalue list are empty.
C2_EmptyAfterInvocation ==
    (pc = "idle" /\ result.st # "none") =>
        /\ core.stack = <<>>
        /\ core.frames = <<>>
        /\ core.openUpvalues = <<>>

\* The log an if / elseif / else chain must leave: the conditions cond(1, a),
\* cond(2, b), ... record 1, 2, ... up to the first truthy one, whose block
\* records 10 + its number; with none truthy the else block, if there is
\* one, records 10 + the number of conditions + 1; then mark(9) runs.
RECURSIVE ChainLog(_, _, _)
ChainLog(args, i, hasElse) ==
    IF i > Len(args) THEN (IF hasElse THEN <<Number(10 + i)>> ELSE <<>>)
    ELSE IF Truthy(args[i]) THEN <<Number(i), Number(10 + i)>>
    ELSE <<Number(i)>> \o ChainLog(args, i + 1, hasElse)

\* C4: in an if / elseif / else chain the conditions are evaluated in order
\* and exactly one block runs, that of the first truthy condition or else
\* the else block (none without an else); control then continues after the
\* chain without evaluating a later condition or running another block.
C4_ExactlyOneBlock ==
    Finished({"chain", "chain3"}) =>
        /\ result.st = "done"
        /\ hostLog = ChainLog(call.args, 1, call.name = "chain") \o <<Number(9)>>

\* C5: `a && b` is the value of a when a is falsy and otherwise that of b;
\* `a || b` is the value of a when a is truthy and otherwise that of b; the
\* function returning the expression returns exactly that value.
C5_LogicalValue ==
    /\ Finished({"land"}) =>
          /\ result.st = "done"
          /\ result.val = IF Truthy(call.args[1]) THEN call.args[2] ELSE call.args[1]
    /\ Finished({"lor"}) =>
          /\ result.st = "done"
          /\ result.val = IF Truthy(call.args[1]) THEN call.args[1] ELSE call.args[2]

\* The log a for-in loop over the elements e must leave, for each of the
\* loop functions, followed by the mark(9) after the loop.
LoopLog(name, e) ==
    (CASE name = "loop" -> e
       [] name = "loopPair" ->
            [i \in 1..(2 * Len(e)) |->
                IF i % 2 = 1 THEN String(stringIndex((i - 1) \div 2)) ELSE e[i \div 2]]
       [] name = "loopNest" ->
            [i \in 1..(Len(e) * Len(e)) |-> e[((i - 1) % Len(e)) + 1]]
       [] name \in {"loopIf", "loopAnd"} -> SelectSeq(e, Truthy))
    \o <<Number(9)>>

\* C6: a for-in loop over an array of n elements runs its body exactly n
\* times, binding the elements in index order (with the stringified index
\* as key in the pair form), then pops the iterator and continues after the
\* loop, whatever the body contains (if, nested for-in, `&&`, calls).
C6_ForInArray ==
    Finished({"loop", "loopPair", "loopNest", "loopIf", "loopAnd"}) =>
        /\ result.st = "done"
        /\ hostLog = LoopLog(call.name, heap.arrs[call.args[1].n])

\* The instruction about to be dispatched by the executing frame.
AtInstruction == currentFrame(Machine).ip < Len(FrameCode(Machine))

\* The native function called by the instruction about to be dispatched
\* ("" if it calls none), and the arguments it is called with.
CalledNative ==
    LET code == FrameCode(Machine)
        ip == currentFrame(Machine).ip
    IN IF /\ AtInstruction
          /\ code[ip + 1] = OP_CALL
          /\ Len(core.stack) >= code[ip + 2] + 1
          /\ core.stack[Len(core.stack) - code[ip + 2]].k = "function"
          /\ core.stack[Len(core.stack) - code[ip + 2]].n # 0
       THEN heap.funcs[core.stack[Len(core.stack) - code[ip + 2]].n].Native
       ELSE ""

CalledArgs ==
    SubSeq(core.stack,
           Len(core.stack) - FrameCode(Machine)[currentFrame(Machine).ip + 2] + 1,
           Len(core.stack))

\* The instruction about to be dispatched makes a handler start a Run of
\* its own on this VM, which is an invocation with a counter of its own.
StartsNestedRun ==
    CalledNative = "apply" /\ Arg(CalledArgs, 1).k = "function" /\ Arg(CalledArgs, 1).n # 0

C3_Dispatch ==
    /\ core'.instLimit >= 0
    /\ (pc = "idle" /\ pc' = "run") => core'.instCount = 0
    /\ (pc = "run" /\ AtInstruction) =>
          IF core.instLimit > 0 /\ core.instCount >= core.instLimit
          THEN /\ UNCHANGED <<heap, hostLog>>
               /\ IF nest = <<>>
                  THEN /\ pc' = "idle"
                       /\ result'.st = "error"
                       /\ result'.err.Message = "instruction limit exceeded"
                       /\ result'.err.Frame.Function = FrameFn(Machine).Name
                  ELSE Len(nest') < Len(nest)
          ELSE /\ core'.instCount = IF StartsNestedRun THEN 0 ELSE core.instCount + 1
               /\ result'.err.Message # "instruction limit exceeded"

\* C3: with an instruction limit N > 0 an invocation dispatches at most N
\* instructions, and the attempt to dispatch one more raises "instruction
\* limit exceeded" with the executing function as frame; the counter starts
\* at zero in each invocation; with limit 0, to which negative limits are
\* clamped, the error is never raised.
C3_InstructionLimit ==
    /\ [](pc = "run" /\ core.instLimit > 0 => core.instCount <= core.instLimit)
    /\ [][C3_Dispatch]_vars

C3_Witness ==
    /\ Failed("instruction limit exceeded")
    /\ call.name = "spin"
    /\ ncalls = 2
    /\ core.instLimit = 3
    /\ core.instCount = 4
    /\ result.err.Frame.Function = "spin"

\* C7: two closures that capture the same local of the same frame share one
\* upvalue cell, so no variable ever has two cells; a write through one
\* closure or by the frame is seen by the other closure and by the frame,
\* while the frame is live (mk records 1 and 5) and after it has returned
\* (share records 6 twice and returns 6).
C7_SharedCell ==
    /\ \A u1, u2 \in DOMAIN heap.cells :
          (heap.cells[u1].l = heap.cells[u2].l /\ heap.cells[u1].slot = heap.cells[u2].slot)
             => u1 = u2
    /\ Finished({"mk"}) => hostLog = <<Number(1), Number(5)>>
    /\ Finished({"share"}) =>
          /\ result.st = "done" /\ result.val = Number(6)
          /\ hostLog = <<Number(1), Number(5), Number(6), Number(6)>>

C7_Witness ==
    /\ Finished({"share"})
    /\ \E f, g \in DOMAIN heap.funcs :
          /\ f # g
          /\ heap.funcs[f].Upvalues # <<>> /\ heap.funcs[g].Upvalues # <<>>
          /\ heap.funcs[f].Upvalues[1] = heap.funcs[g].Upvalues[1]
          /\ ~heap.cells[heap.funcs[f].Upvalues[1]].open
          /\ heap.cells[heap.funcs[f].Upvalues[1]].closed = Number(6)

C8_Phase ==
    pc = "run" =>
       \A uv \in DOMAIN heap.cells :
          /\ uv \in DOMAIN heap'.cells
          /\ ~heap.cells[uv].open => ~heap'.cells[uv].open
          /\ (heap.cells[uv].open /\ ~heap'.cells[uv].open) =>
                heap'.cells[uv].closed = heap.locals[heap.cells[uv].l][heap.cells[uv].slot + 1]
          /\ (~heap.cells[uv].open /\ heap'.cells[uv].closed # heap.cells[uv].closed) =>
                /\ AtInstruction
                /\ FrameCode(Machine)[currentFrame(Machine).ip + 1] = OP_SET_UPVALUE

C8_Stored ==
    \A uv \in DOMAIN heap.cells :
       ~heap.cells[uv].open =>
          /\ UpvalueGet(Machine, uv) = heap.cells[uv].closed
          /\ UpvalueSet(Machine, uv, Number(0)).cells[uv].closed = Number(0)
          /\ UpvalueSet(Machine, uv, Number(0)).locals = heap.locals

\* C8: an upvalue cell goes from open to closed at most once and is never
\* open again; when it closes it stores the value its local has at that
\* moment, and from then on get and set read and write the stored value.
C8_OpenThenClosed == []C8_Stored /\ [][C8_Phase]_vars

C8_Witness ==
    /\ pc = "run"
    /\ call.name = "share"
    /\ \E uv \in DOMAIN heap.cells :
          ~heap.cells[uv].open /\ heap.cells[uv].closed = Number(6)

ReadOnlyArrs == {a \in DOMAIN HostArrs :
                    a = ReadOnlyArray.n \/ \E i \in DOMAIN HostArrs[ReadOnlyArray.n] :
                                              HostArrs[ReadOnlyArray.n][i] = ReadOnly(Array(a))}

\* C9: an array or object that carries the read-only flag is never changed
\* by script code: INDEX_SET and SET_PROP on it raise "cannot modify
\* read-only value" and leave its elements and properties as they were, and
\* the builtins leave them as they were too.
C9_ReadOnlyUnchanged ==
    /\ \A a \in ReadOnlyArrs : heap.arrs[a] = HostArrs[a]
    /\ heap.objs[ReadOnlyObject.n] = HostObjs[ReadOnlyObject.n]
    /\ (Finished({"setIdx", "setKey", "setProp", "setNested"}) /\ call.args[1].ro) =>
          Failed("cannot modify read-only value")

C9_Witness ==
    /\ Finished({"setNested"})
    /\ call.args[1] = ReadOnlyArray
    /\ Failed("cannot modify read-only value")
    /\ heap.arrs[Array(3).n] # HostArrs[Array(3).n]

\* C10: the number of live frames never exceeds the maximum frame depth,
\* 256; the call that would push one more raises "call stack overflow", and
\* so unbounded recursion ends with that error.
C10_FrameDepth ==
    /\ Len(core.frames) <= defaultMaxFrames
    /\ Finished({"rec"}) => Failed("call stack overflow")

C10_Witness ==
    /\ Finished({"rec"})
    /\ Failed("call stack overflow")
    /\ Len(core.frames) = defaultMaxFrames

\* The busy-guarded operations in progress: the goroutines that have not yet
\* cleared busy, and the calls of Duplicate inside core.Duplicate().
InFlight == {i \in DOMAIN futures : futures[i].at \in {"start", "run", "sent"}}
Copying == {i \in DOMAIN dups : dups[i].at = "copying"}

BusyRejected(f) ==
    /\ f.at = "closed"
    /\ f.res = VmCallResult(Null, GoError("VM is busy; concurrent CallAsync not allowed"))

\* What each invocation yields when nothing else is asked of the VM.
RECURSIVE Finish(_)
Finish(m) == IF m.out.st = "run" THEN Finish(Unwind(Step(m, <<>>))) ELSE m

AloneResults ==
    [inv \in ApiInvocations |->
        callResult(Finish(Call(InitCore(InitHeap(Module).funcs) @@ InitHeap(Module)
                                  @@ [log |-> <<>>, out |-> Running, nest |-> <<>>,
                                      pin |-> FALSE, traced |-> NoTrace],
                               inv.name, inv.args)).out)]

C1_Exclusive ==
    /\ Cardinality(InFlight) + Cardinality(Copying) <= 1
    /\ \A i \in DOMAIN futures :
          (/\ futures[i].res.sent
           /\ ~BusyRejected(futures[i])
           /\ futures[i].res.Err.Message # "context canceled"
           /\ \A j \in 1..(i - 1) : BusyRejected(futures[j]))
             => futures[i].res = AloneResults[futures[i].inv]

C1_Rejection ==
    InFlight # {} =>
       /\ Len(futures') > Len(futures) =>
             /\ BusyRejected(futures'[Len(futures')])
             /\ SubSeq(futures', 1, Len(futures)) = futures
             /\ UNCHANGED <<core, heap, hostLog, pc, call, result, busy, dups, twin, parser, lexer, compiling>>
       /\ Len(dups') > Len(dups) =>
             /\ dups'[Len(dups')] = [at |-> "rejected",
                                     err |-> "VM is busy; cannot duplicate while running"]
             /\ UNCHANGED <<core, heap, hostLog, pc, call, result, busy, futures>>

\* C1: at most one busy-guarded operation runs on a VM at a time; while a
\* CallAsync execution is in flight a further CallAsync returns a future
\* that at once yields "VM is busy; concurrent CallAsync not allowed" and
\* runs no script code, Duplicate returns an error, and the call in flight
\* delivers the result it delivers when nothing else is asked of the VM.
C1_BusyGuard == []C1_Exclusive /\ [][C1_Rejection]_vars

C1_Witness ==
    /\ Len(futures) = 2
    /\ futures[1].inv = Invocation("add", <<Number(1), Number(2)>>)
    /\ futures[1].res = VmCallResult(Number(3), NoError)
    /\ BusyRejected(futures[2])
    /\ Len(dups) = 1 /\ dups[1].at = "rejected"

(***************************************************************************)
(* Nested calls: a native handler that calls back into the VM running it.  *)
(***************************************************************************)
\* C11: when a native handler called from a running script invokes a script
\* function on the same VM, the nested call returns its result to the
\* handler and the outer invocation then resumes and returns its own result:
\* nested() records 5 and returns 6, nestedTwice() returns 8, and
\* nestedNative() records null twice and returns 4.
C11_NestedCallResumes ==
    /\ (Finished({"nested"}) /\ core.instLimit = 0) =>
           /\ result.st = "done"
           /\ result.val = Number(6)
           /\ hostLog = <<Number(5)>>
    /\ (Finished({"nestedTwice"}) /\ core.instLimit = 0) =>
           /\ result.st = "done"
           /\ result.val = Number(8)
    /\ (Finished({"nestedNative"}) /\ core.instLimit = 0) =>
           /\ result.st = "done"
           /\ result.val = Number(4)
           /\ hostLog = <<Null, Null>>

(***************************************************************************)
(* Iteration.                                                              *)
(***************************************************************************)
\* C12: iterating an object visits its keys in the order in which they were
\* inserted, so two iterations over the same unchanged object yield the same
\* key sequence: keys2(), which inserts "a" and then "b" and iterates twice,
\* records a, b, a, b and then 9.
C12_InsertionOrder ==
    Finished({"keys2"}) =>
        hostLog = <<String("a"), String("b"), String("a"), String("b"), Number(9)>>

Range(seq) == {seq[i] : i \in DOMAIN seq}

\* The step is one of an invocation in progress, which collects nothing.
Dispatching == pc = "run" /\ ncalls' = ncalls

\* C13 (states): an object iterator's key list has no key twice and its
\* position never passes the end of the list; grow(), which adds key "c"
\* inside its loop over {a, b}, visits a and b once each and ends with "c"
\* present.
C13_Keys ==
    /\ \A id \in DOMAIN heap.iters :
          heap.iters[id].obj # 0 =>
              /\ Cardinality(Range(heap.iters[id].keys)) = Len(heap.iters[id].keys)
              /\ heap.iters[id].index <= Len(heap.iters[id].keys)
    /\ Finished({"grow"}) =>
          hostLog \in {<<String("a"), String("b"), Bool(TRUE)>>,
                       <<String("b"), String("a"), Bool(TRUE)>>}

\* C13 (steps): an object iterator is made with exactly the keys its object
\* has at that moment, and no later step changes the list.
C13_Step ==
    Dispatching =>
        \A id \in DOMAIN heap'.iters :
            heap'.iters[id].obj # 0 =>
                IF id \in DOMAIN heap.iters
                THEN heap'.iters[id].keys = heap.iters[id].keys
                ELSE Range(heap'.iters[id].keys) = DOMAIN heap.objs[heap'.iters[id].obj]

\* C13: the key list of an object iterator is fixed when ITER_PREP runs:
\* every key present then is visited exactly once, keys added during the
\* iteration are not visited and do not lengthen the loop.
C13_KeyListFixed == []C13_Keys /\ [][C13_Step]_vars

\* grow() has completed: its iterator stopped after two keys although the
\* object has three.
C13_Witness ==
    /\ Finished({"grow"})
    /\ result.st = "done"
    /\ \E id \in DOMAIN heap.iters :
          /\ heap.iters[id].obj # 0
          /\ heap.iters[id].index = 2
          /\ Len(heap.iters[id].keys) = 2
          /\ DOMAIN heap.objs[heap.iters[id].obj] = {"a", "b", "c"}

\* Next would report exhaustion.
Exhausted(h, id) ==
    IF h.iters[id].arr # 0 THEN h.iters[id].index >= Len(h.arrs[h.iters[id].arr])
    ELSE IF h.iters[id].obj # 0 THEN h.iters[id].index >= Len(h.iters[id].keys)
    ELSE TRUE

\* C14 (steps): a position moves forward only, by one at a time; an
\* exhausted iterator stays exhausted; ITER_PREP given an iterator leaves
\* that iterator on the stack and every iterator as it is.
C14_Step ==
    Dispatching =>
        /\ \A id \in DOMAIN heap.iters :
              /\ id \in DOMAIN heap'.iters
              /\ heap'.iters[id].index \in {heap.iters[id].index, heap.iters[id].index + 1}
              /\ Exhausted(heap, id) => Exhausted(heap', id)
        /\ (/\ nest' = nest
            /\ AtInstruction
            /\ FrameCode(Machine)[currentFrame(Machine).ip + 1] = OP_ITER_PREP
            /\ peek(Machine).k = "iterator"
            /\ peek(Machine).n # 0
            /\ ~limitExceeded([core EXCEPT !.instCount = @ + 1])) =>
               /\ core'.stack = core.stack
               /\ heap'.iters = heap.iters

\* C14 (states): once(xs), which makes one iterator over xs and loops over
\* it twice, records the elements of xs once and then 9.
C14_Once ==
    \A xs \in PlainArrays :
        (Finished({"once"}) /\ call.args = <<xs>>) =>
            hostLog = heap.arrs[xs.n] \o <<Number(9)>>

\* C14: an iterator is one-shot: its position only moves forward, once
\* exhausted it stays exhausted, and ITER_PREP on an iterator value yields
\* the same iterator without rewinding it.
C14_OneShot == []C14_Once /\ [][C14_Step]_vars

\* once([7, 8]) has completed: the second loop ran its body zero times.
C14_Witness ==
    /\ Finished({"once"})
    /\ call.args = <<Array(3)>>
    /\ hostLog = <<Number(7), Number(8), Number(9)>>
    /\ \E id \in DOMAIN heap.iters : heap.iters[id].index = 2

(***************************************************************************)
(* Equality.                                                               *)
(***************************************************************************)
\* What the language defines for a == b.
SameValue(a, b) ==
    /\ a.k = b.k
    /\ IF a.k \in {"array", "object", "function", "iterator"} THEN a.n = b.n
       ELSE a.n = b.n /\ a.s = b.s /\ a.b = b.b

\* C15: equality compares values of the same kind: null equals null;
\* booleans, numbers, strings and errors by content; arrays, objects,
\* functions and iterators by reference, so a container or function compared
\* with itself yields true; values of different kinds are never equal.
C15_Equality ==
    /\ Finished({"same", "sameFn"}) => result.val = Bool(TRUE)
    /\ Finished({"eq"}) => result.val = Bool(SameValue(call.args[1], call.args[2]))
    /\ Finished({"eqErr"}) => result.val = Bool(call.args[1] = call.args[2])

(***************************************************************************)
(* Runtime errors.                                                         *)
(***************************************************************************)
\* The frames on the list, innermost first, each at its last-dispatched
\* instruction.  An invocation that fails leaves its frames on the list.
LiveTrace ==
    [i \in 1..Len(core.frames) |->
        frameInfo(Machine, core.frames[Len(core.frames) + 1 - i],
                  core.frames[Len(core.frames) + 1 - i].lastOp)]

\* C16: every runtime error describes the failing invocation at the moment
\* of failure: its primary frame is the innermost executing function at its
\* last-dispatched instruction and its stack trace lists exactly the frames
\* live in that invocation, innermost first; a call that fails before any
\* function runs (an unknown global) has no frame to list.  This holds for
\* every call in a sequence, whatever the earlier calls did.
C16_TraceOfInvocation ==
    (pc = "idle" /\ result.st = "error") =>
        IF call.name \in DOMAIN core.globals
        THEN /\ result.err.Stack = LiveTrace
             /\ result.err.Frame = IF LiveTrace = <<>> THEN NoFrameInfo ELSE LiveTrace[1]
        ELSE /\ result.err.Stack = <<>>
             /\ result.err.Frame = NoFrameInfo

\* The Go error the handler of a native function returns for the given
\* arguments, "" for nil.
HandlerError(name, args) ==
    CASE name = "fail" -> "boom"
      [] name = "apply" ->
           IF Arg(args, 1).k # "function" \/ Arg(args, 1).n = 0 THEN "not a function" ELSE ""
      [] name = "iter" -> IF Arg(args, 1).k # "array" THEN "not an array" ELSE ""
      [] OTHER -> ""

\* C17 (steps): the call of a native function whose handler returns an
\* error ends the invocation with a runtime error that has the handler's
\* message, the calling script frame at the call instruction, and the
\* handler's error as its cause; the value returned is error(message).
C17_Step ==
    (/\ Dispatching
     /\ nest = <<>>
     /\ CalledNative # ""
     /\ HandlerError(CalledNative, CalledArgs) # ""
     /\ ~limitExceeded([core EXCEPT !.instCount = @ + 1])) =>
        /\ pc' = "idle"
        /\ result'.st = "error"
        /\ result'.val = ErrorVal(HandlerError(CalledNative, CalledArgs))
        /\ result'.err.Message = HandlerError(CalledNative, CalledArgs)
        /\ result'.err.Cause = HandlerError(CalledNative, CalledArgs)
        /\ result'.err.Frame = frameInfo(Machine, currentFrame(Machine),
                                         currentFrame(Machine).ip)
        /\ result'.err.Stack[1] = result'.err.Frame
        /\ Len(result'.err.Stack) = Len(core.frames)
        /\ UNCHANGED <<heap, hostLog>>

\* C17 (states): raise(), which calls fail() between mark(1) and mark(2),
\* ends with the error "boom" raised in raise, after recording 1 only;
\* raiseDeep() ends with the same error raised in its closure, called from
\* raiseDeep.
C17_Raised ==
    /\ Finished({"raise"}) =>
          /\ Failed("boom")
          /\ result.err.Cause = "boom"
          /\ result.err.Frame.Function = "raise"
          /\ hostLog = <<Number(1)>>
    /\ Finished({"raiseDeep"}) =>
          /\ Failed("boom")
          /\ result.err.Cause = "boom"
          /\ Len(result.err.Stack) = 2
          /\ result.err.Stack[2].Function = "raiseDeep"

\* C17: an error returned by a native handler during a script call aborts
\* the invocation with a runtime error whose message is the host error's
\* message, whose frame is the script frame that made the call, and whose
\* cause is the host error.
C17_HostError == []C17_Raised /\ [][C17_Step]_vars

\* raiseDeep() has failed inside its closure with the host's error.
C17_Witness ==
    /\ Finished({"raiseDeep"})
    /\ Failed("boom")
    /\ result.err.Cause = "boom"
    /\ Len(result.err.Stack) = 2
    /\ result.err.Frame = result.err.Stack[1]
    /\ result.err.Frame.Function # "raiseDeep"

(***************************************************************************)
(* What a VM can observe: the nodes of the heap its globals lead to.  A    *)
(* node is an array, an object, a function, an upvalue cell, the local     *)
(* slot an open cell points at, or an iterator.                            *)
(***************************************************************************)
Node(k, n, i) == [k |-> k, n |-> n, i |-> i]

ValueNodes(v) ==
    IF v.k \in {"array", "object", "function", "iterator"} /\ v.n # 0
    THEN {Node(v.k, v.n, 0)} ELSE {}

Successors(h, x) ==
    CASE x.k = "array" -> UNION {ValueNodes(h.arrs[x.n][i]) : i \in DOMAIN h.arrs[x.n]}
      [] x.k = "object" -> UNION {ValueNodes(h.objs[x.n][key]) : key \in DOMAIN h.objs[x.n]}
      [] x.k = "function" ->
           {Node("cell", h.funcs[x.n].Upvalues[i], 0) :
               i \in {j \in DOMAIN h.funcs[x.n].Upvalues : h.funcs[x.n].Upvalues[j] # 0}}
      [] x.k = "cell" ->
           IF h.cells[x.n].open THEN {Node("slot", h.cells[x.n].l, h.cells[x.n].slot)}
           ELSE ValueNodes(h.cells[x.n].closed)
      [] x.k = "slot" -> ValueNodes(h.locals[x.n][x.i + 1])
      [] x.k = "iterator" ->
           (IF h.iters[x.n].arr # 0 THEN {Node("array", h.iters[x.n].arr, 0)} ELSE {})
           \cup (IF h.iters[x.n].obj # 0 THEN {Node("object", h.iters[x.n].obj, 0)} ELSE {})

RECURSIVE Reach(_, _)
Reach(h, nodes) ==
    IF UNION {Successors(h, x) : x \in nodes} \subseteq nodes THEN nodes
    ELSE Reach(h, nodes \cup UNION {Successors(h, x) : x \in nodes})

Roots(globals) == UNION {ValueNodes(globals[name]) : name \in DOMAIN globals}

Content(h, x) ==
    CASE x.k = "array" -> h.arrs[x.n]
      [] x.k = "object" -> h.objs[x.n]
      [] x.k = "function" -> h.funcs[x.n]
      [] x.k = "cell" -> h.cells[x.n]
      [] x.k = "slot" -> h.locals[x.n][x.i + 1]
      [] x.k = "iterator" -> h.iters[x.n]

\* Everything a script of the VM with these globals can read.
Snapshot(globals, h) ==
    [globals |-> globals,
     nodes |-> [x \in Reach(h, Roots(globals)) |-> Content(h, x)]]

BaseGlobals == IF twin.active = "base" THEN core.globals ELSE twin.core.globals
DupGlobals == IF twin.active = "dup" THEN core.globals ELSE twin.core.globals

\* C18 (states): once Duplicate has returned, no array, object, function,
\* upvalue cell, local slot or iterator is within reach of both VMs.
C18_Disjoint ==
    twin.made => Reach(heap, Roots(BaseGlobals)) \cap Reach(heap, Roots(DupGlobals)) = {}

\* C18 (steps): whatever one VM does in a step (the start of a call or one
\* instruction: a global assignment, an element or property write, a
\* write to a captured variable), the globals of the other VM and
\* everything they lead to stay as they were.
C18_Step ==
    (twin.made /\ twin'.made) =>
        Snapshot(twin'.core.globals, heap')
            = Snapshot(IF twin'.active = twin.active THEN twin.core.globals
                       ELSE core.globals, heap)

\* C18: after Duplicate, the original VM and the duplicate share no mutable
\* script state: any sequence of global assignments, element or property
\* writes and captured-variable writes performed in one of them leaves
\* every value observable in the other unchanged.
C18_Isolation == []C18_Disjoint /\ [][C18_Step]_vars

\* poke() has run to its end in the duplicate of a VM in which build() had
\* run: the duplicate sees its writes, the original sees none of them.
C18_Witness ==
    /\ twin.made /\ twin.active = "dup"
    /\ pc = "idle" /\ call.name = "poke" /\ result.st = "done"
    /\ heap.arrs[core.globals["ga"].n][1] = Number(9)
    /\ heap.arrs[twin.core.globals["ga"].n][1] = Number(1)
    /\ "y" \in DOMAIN heap.objs[core.globals["go"].n]
    /\ "y" \notin DOMAIN heap.objs[twin.core.globals["go"].n]
    /\ core.globals["gb"] = Null
    /\ twin.core.globals["gb"].k = "array"
    /\ UpvalueGet(heap, heap.funcs[core.globals["get"].n].Upvalues[1]) = Number(1)
    /\ UpvalueGet(heap, heap.funcs[twin.core.globals["get"].n].Upvalues[1]) = Number(0)

\* The clone of a value under the maps f of the clone state; an array is
\* identified by its backing store, as sliceKey tells it.
Cloned(h, f, v) ==
    CASE v.k = "array" /\ v.n # 0 -> [v EXCEPT !.n = f.arrays[sliceKey(h, v.n)]]
      [] v.k = "object" /\ v.n # 0 -> [v EXCEPT !.n = f.objects[v.n]]
      [] v.k = "function" /\ v.n # 0 -> [v EXCEPT !.n = f.functions[v.n]]
      [] v.k = "iterator" /\ v.n # 0 -> [v EXCEPT !.n = f.iterators[v.n]]
      [] OTHER -> v

Injective(f) == \A a, b \in DOMAIN f : f[a] = f[b] => a = b

Image(f) == {f[a] : a \in DOMAIN f}

Ids(nodes, k) == {x.n : x \in {y \in nodes : y.k = k}}

\* The maps f send the nodes within reach in h, and nothing else, one to
\* one onto the entries that h2 has and h has not.
ClonedOnce(h, h2, f, nodes) ==
    /\ DOMAIN f.arrays = {sliceKey(h, n) : n \in Ids(nodes, "array")}
    /\ DOMAIN f.objects = Ids(nodes, "object")
    /\ DOMAIN f.functions = Ids(nodes, "function")
    /\ DOMAIN f.upvalues = Ids(nodes, "cell")
    /\ DOMAIN f.iterators = Ids(nodes, "iterator")
    /\ Injective(f.arrays) /\ Image(f.arrays) = Len(h.arrs) + 1 .. Len(h2.arrs)
    /\ Injective(f.objects) /\ Image(f.objects) = Len(h.objs) + 1 .. Len(h2.objs)
    /\ Injective(f.functions) /\ Image(f.functions) = Len(h.funcs) + 1 .. Len(h2.funcs)
    /\ Injective(f.upvalues) /\ Image(f.upvalues) = Len(h.cells) + 1 .. Len(h2.cells)
    /\ Injective(f.iterators) /\ Image(f.iterators) = Len(h.iters) + 1 .. Len(h2.iters)

\* Each clone holds the clones of what its original holds.
SameShape(h, h2, f, nodes) ==
    /\ \A n \in Ids(nodes, "array") :
          h2.arrs[f.arrays[sliceKey(h, n)]]
              = [i \in DOMAIN h.arrs[n] |-> Cloned(h, f, h.arrs[n][i])]
    /\ \A n \in Ids(nodes, "object") :
          /\ DOMAIN h2.objs[f.objects[n]] = DOMAIN h.objs[n]
          /\ \A key \in DOMAIN h.objs[n] :
                h2.objs[f.objects[n]][key] = Cloned(h, f, h.objs[n][key])
    /\ \A n \in Ids(nodes, "function") :
          h2.funcs[f.functions[n]]
              = [h.funcs[n] EXCEPT !.Upvalues =
                    [i \in DOMAIN @ |-> IF @[i] = 0 THEN 0 ELSE f.upvalues[@[i]]]]
    /\ \A n \in Ids(nodes, "cell") :
          h2.cells[f.upvalues[n]]
              = [open |-> FALSE, l |-> 0, slot |-> 0,
                 closed |-> Cloned(h, f, UpvalueGet(h, n))]
    /\ \A n \in Ids(nodes, "iterator") :
          h2.iters[f.iterators[n]]
              = [arr |-> IF h.iters[n].arr = 0 THEN 0
                         ELSE f.arrays[sliceKey(h, h.iters[n].arr)],
                 obj |-> IF h.iters[n].obj = 0 THEN 0 ELSE f.objects[h.iters[n].obj],
                 keys |-> h.iters[n].keys, index |-> h.iters[n].index]

\* C19: Duplicate preserves the sharing graph: every array, object,
\* function and upvalue cell within reach of the globals is cloned exactly
\* once, the globals of the duplicate are the clones of the globals of the
\* original, and every clone holds the clones of what its original holds,
\* so that aliases of one container (closures sharing one cell) become
\* aliases of one clone and distinct containers get distinct clones; a
\* structure that contains itself is cloned like any other.
C19_Step ==
    (~twin.made /\ twin'.made) =>
        /\ ClonedOnce(heap, heap', twin'.clone, Reach(heap, Roots(core.globals)))
        /\ SameShape(heap, heap', twin'.clone, Reach(heap, Roots(core.globals)))
        /\ twin'.core.globals
              = [name \in DOMAIN core.globals |->
                    Cloned(heap, twin'.clone, core.globals[name])]
        /\ Snapshot(core'.globals, heap') = Snapshot(core.globals, heap)

C19_SharingGraph == [][C19_Step]_vars

\* A VM in which build() had run has been duplicated: in the duplicate as
\* in the original, ga and gb and the field x of go are one array, go is
\* its own field me, and inc and get share their cell; none of these is
\* the original's.
C19_Witness ==
    /\ twin.made /\ pc = "idle" /\ ncalls = 1 /\ call.name = "build"
    /\ {"ga", "gb", "go", "inc", "get"} \subseteq DOMAIN DupGlobals \cap DOMAIN BaseGlobals
    /\ DupGlobals["ga"].k = "array" /\ BaseGlobals["ga"].k = "array"
    /\ DupGlobals["gb"] = DupGlobals["ga"]
    /\ heap.objs[DupGlobals["go"].n]["x"] = DupGlobals["ga"]
    /\ heap.objs[DupGlobals["go"].n]["me"] = DupGlobals["go"]
    /\ heap.funcs[DupGlobals["inc"].n].Upvalues[1] = heap.funcs[DupGlobals["get"].n].Upvalues[1]
    /\ BaseGlobals["gb"] = BaseGlobals["ga"]
    /\ heap.objs[BaseGlobals["go"].n]["me"] = BaseGlobals["go"]
    /\ DupGlobals["ga"] # BaseGlobals["ga"]
    /\ DupGlobals["go"] # BaseGlobals["go"]
    /\ heap.funcs[DupGlobals["inc"].n].Upvalues[1] # heap.funcs[BaseGlobals["inc"].n].Upvalues[1]


(***************************************************************************)
(* C20.  ParseProgram terminates on every input: having recorded a syntax  *)
(* error it keeps advancing through the tokens, so every input, one in     *)
(* which `if`, `while`, `for` or `func` lacks the token it requires        *)
(* included, yields a program and a finite list of errors.  What a turn    *)
(* of ParseProgram's loop does depends on nothing but the tokens from      *)
(* curToken on, so the call returns exactly if every turn ends at a later  *)
(* token or at the return, and no turn is caught in parseBlock's loop.     *)
(* The code does not do so: the parsers of these four statements return    *)
(* nil at the token they began at, and the loops of ParseProgram and       *)
(* parseBlock call them again there.                                       *)
(***************************************************************************)
C20_Step ==
    parser.phase = "parsing" =>
        \/ parser'.phase = "done"
        \/ ~parser'.hang /\ parser'.pos > parser.pos

C20_KeepsAdvancing == [][C20_Step]_vars


(***************************************************************************)
(* The newline rule of the lexer.  Unmatched(toks, n, open, close) is the  *)
(* number of open tokens among the first n that no later close token has   *)
(* matched; a close token that matches nothing counts for nothing.         *)
(***************************************************************************)
RECURSIVE Unmatched(_, _, _, _)
Unmatched(toks, n, open, close) ==
    IF n = 0 THEN 0
    ELSE IF toks[n] = open THEN Unmatched(toks, n - 1, open, close) + 1
    ELSE IF toks[n] = close /\ Unmatched(toks, n - 1, open, close) > 0
    THEN Unmatched(toks, n - 1, open, close) - 1
    ELSE Unmatched(toks, n - 1, open, close)

EligibleTokens ==
    {"IDENT", "VAR", "NUMBER", "STRING", "TRUE", "FALSE", "NULL", "RPAREN", "RBRACKET", "RBRACE",
     "RETURN"}

\* Every Newline token returned so far follows a newline-eligible token,
\* with no ( and no [ open.
C21_Placed ==
    \A i \in DOMAIN lexer.out :
        lexer.out[i] = "NEWLINE" =>
            /\ i > 1
            /\ lexer.out[i - 1] \in EligibleTokens
            /\ Unmatched(lexer.out, i - 1, "LPAREN", "RPAREN") = 0
            /\ Unmatched(lexer.out, i - 1, "LBRACKET", "RBRACKET") = 0

\* A call that returns Newline has just read a physical newline.
C21_Step ==
    (Len(lexer'.out) > Len(lexer.out) /\ lexer'.tok = "NEWLINE") =>
        /\ lexer'.pos > lexer.pos
        /\ lexer'.input[lexer'.pos - 1] = "\n"

\* C21.  The lexer returns a Newline token only for a physical newline it
\* reads while no ( and no [ is unmatched and the token returned before is
\* newline-eligible; a newline inside parentheses or brackets or after any
\* other token yields no token, and comments that are skipped do not change
\* which token counts as the one before.
C21_NewlineRule == []C21_Placed /\ [][C21_Step]_vars

\* A newline inside ( ) went by without a token, and the newline after the
\* ) has yielded one.
C21_Witness ==
    /\ lexer.phase = "done"
    /\ lexer.input = <<"(", "\n", ")", "\n">>
    /\ lexer.out = <<"LPAREN", "RPAREN", "NEWLINE", "EOF">>


(***************************************************************************)
(* Short circuit.                                                           *)
(***************************************************************************)
\* C22.  `&&` and `||` short-circuit: the right operand of `&&` is evaluated
\* only if the left one is truthy, that of `||` only if the left one is
\* falsy; of a right operand that is skipped no call and no assignment
\* takes place.  cond(k, v) tells the host k, so the log of land and lor
\* shows which operands were evaluated, and shorts counts in $s the
\* assignments its right operands made.
C22_ShortCircuit ==
    /\ Finished({"land"}) =>
          hostLog = IF Truthy(call.args[1]) THEN <<Number(1), Number(2)>> ELSE <<Number(1)>>
    /\ Finished({"lor"}) =>
          hostLog = IF Truthy(call.args[1]) THEN <<Number(1)>> ELSE <<Number(1), Number(2)>>
    /\ Finished({"shorts"}) =>
          /\ result.st = "done"
          /\ result.val = IF Truthy(call.args[1]) THEN Number(1) ELSE Number(2)

\* shorts(null) has returned: the right operand of its `&&` was skipped and
\* that of its `||` was evaluated.
C22_Witness ==
    /\ Finished({"shorts"})
    /\ call.args[1] = Null
    /\ result.val = Number(2)


(***************************************************************************)
(* Arguments.  A frame is new while its ip is 0 and no instruction of it   *)
(* has been fetched (lastOp = -1).                                         *)
(***************************************************************************)
NewFrames == {i \in DOMAIN core.frames : core.frames[i].ip = 0 /\ core.frames[i].lastOp = -1}

FrameProtoAt(i) == heap.protos[heap.funcs[core.frames[i].fn].Proto]
FrameLocalsAt(i) == heap.locals[core.frames[i].locals]

\* C23.  When a compiled function with P parameters is called with argc
\* arguments, parameter i receives argument i for i < min(argc, P), the
\* parameters from argc on are null and the arguments from P on are dropped:
\* every local of the new frame that is not a parameter starts as null.
C23_ArgumentCopy ==
    \A i \in NewFrames :
        /\ \A k \in DOMAIN FrameLocalsAt(i) :
               k > FrameProtoAt(i).NumParams => FrameLocalsAt(i)[k] = Null
        /\ (i = 1 /\ nest = <<>>) =>
               \A k \in 1..FrameProtoAt(i).NumParams :
                   FrameLocalsAt(i)[k] = IF k <= Len(call.args) THEN call.args[k] ELSE Null


(***************************************************************************)
(* The end of the chunk.                                                    *)
(***************************************************************************)
\* The executing frame has run off the end of its chunk.
AtEndOfChunk == pc = "run" /\ nest = <<>> /\ core.frames # <<>> /\ ~AtInstruction

\* The upvalues that point into the locals of the executing frame.
FrameUpvalues ==
    {uv \in DOMAIN heap.cells :
        heap.cells[uv].open /\ heap.cells[uv].l = currentFrame(Machine).locals}

\* What OP_NULL and then OP_RETURN make of the machine.
NullReturn == Exec(Exec(Machine, OP_NULL, <<>>), OP_RETURN, <<>>)

C24_Step ==
    (AtEndOfChunk /\ Dispatching) =>
        /\ \A uv \in FrameUpvalues :
               /\ ~heap'.cells[uv].open
               /\ heap'.cells[uv].closed = UpvalueGet(Machine, uv)
               /\ \A i \in DOMAIN core'.openUpvalues : core'.openUpvalues[i] # uv
        /\ core'.frames = SubSeq(core.frames, 1, Len(core.frames) - 1)
        /\ IF Len(core.frames) = 1
           THEN /\ pc' = "idle"
                /\ result' = [st |-> "done", val |-> Null, err |-> NoError]
                /\ core'.stack = <<>>
           ELSE /\ pc' = "run"
                /\ Len(core'.stack) = currentFrame(Machine).base + 1
                /\ core'.stack[Len(core'.stack)] = Null
        /\ Len(core.stack) >= currentFrame(Machine).base =>
               /\ core'.stack = NullReturn.stack
               /\ core'.frames = NullReturn.frames
               /\ core'.openUpvalues = NullReturn.openUpvalues
               /\ heap'.cells = NullReturn.cells
               /\ heap'.locals = NullReturn.locals
               /\ result' = NullReturn.out

C24_Result ==
    /\ Finished({"pick"}) =>
          /\ result.st = "done"
          /\ result.val = IF Truthy(call.args[1]) THEN Null ELSE Number(2)
    /\ Finished({"callPick"}) =>
          /\ result.st = "done"
          /\ result.val = Number(5)
          /\ hostLog = <<Number(1), Null>>

\* C24.  A function whose execution runs off the end of its chunk returns
\* null exactly as `NULL; RETURN` there would: its upvalues are closed, its
\* frame is popped, the stack is cut back to the frame's base, and null goes
\* to the caller or is the final result.  pick(true) runs off the end, since
\* its chunk ends with the RETURN of the else block and gets no implicit
\* return.
C24_EndOfChunk == []C24_Result /\ [][C24_Step]_vars

\* pick, called by callPick, is at the end of its chunk with the upvalue of
\* $n open.
C24_Witness ==
    /\ AtEndOfChunk
    /\ call.name = "callPick"
    /\ Len(core.frames) = 2
    /\ FrameUpvalues # {}


(***************************************************************************)
(* Array indices.                                                           *)
(***************************************************************************)
\* The instruction the executing frame is at.
AtOp(op) == pc = "run" /\ nest = <<>> /\ core.frames # <<>> /\ AtInstruction /\ readU8(Machine) = op

\* The target and the index INDEX_GET and INDEX_SET are about to pop.
IndexTarget(op) == popped(Machine, IF op = OP_INDEX_SET THEN 3 ELSE 2)[1]
IndexOperand(op) == popped(Machine, IF op = OP_INDEX_SET THEN 3 ELSE 2)[2]

ValidIndex(index, length) == index.k = "number" /\ 0 <= index.n /\ index.n < length

C25_Step ==
    \A op \in {OP_INDEX_GET, OP_INDEX_SET} :
        (AtOp(op) /\ Dispatching /\ IndexTarget(op).k = "array") =>
            /\ ~ValidIndex(IndexOperand(op), Len(heap.arrs[IndexTarget(op).n])) =>
                   /\ pc' = "idle"
                   /\ result'.st = "error"
                   /\ heap'.arrs = heap.arrs
            /\ \A id \in DOMAIN heap.arrs :
                   id \in DOMAIN heap'.arrs /\ Len(heap'.arrs[id]) = Len(heap.arrs[id])

C25_Result ==
    /\ Finished({"at", "put"}) =>
          IF ValidIndex(call.args[2], Len(heap.arrs[call.args[1].n]))
          THEN result.st = "done"
          ELSE Failed(IF call.args[2].k = "number" THEN "index out of bounds"
                      ELSE "index must be number")
    /\ Len(heap.arrs[3]) = Len(HostArrs[3])

ReadArgs == popped(Machine, 3)

\* The key an index names in an object: a string as it is, a number as %g
\* prints it.
KeyOf(index) == IF index.k = "string" THEN index.s ELSE stringIndex(index.n)

\* The lookup target[index] succeeds.
Found(target, index) ==
    \/ target.k = "array" /\ ValidIndex(index, Len(heap.arrs[target.n]))
    \/ /\ target.k = "object"
       /\ index.k \in {"string", "number"}
       /\ KeyOf(index) \in DOMAIN heap.objs[target.n]

Lookup(target, index) ==
    IF target.k = "array" THEN heap.arrs[target.n][index.n + 1]
    ELSE heap.objs[target.n][KeyOf(index)]

\* The step stopped at the instruction limit before the instruction ran.
LimitStop == pc' = "idle" /\ result'.st = "error" /\ result'.err.Message = "instruction limit exceeded"

C26_Step ==
    (AtOp(OP_INDEX_READ) /\ Dispatching /\ ~LimitStop) =>
        /\ pc' = "run"
        /\ result'.st # "error"
        /\ Len(core.stack) >= 3
        /\ Len(core'.stack) = Len(core.stack) - 2
        /\ SubSeq(core'.stack, 1, Len(core.stack) - 3) = SubSeq(core.stack, 1, Len(core.stack) - 3)
        /\ core'.stack[Len(core'.stack)] =
               IF Found(ReadArgs[1], ReadArgs[2]) THEN Lookup(ReadArgs[1], ReadArgs[2])
               ELSE ReadArgs[3]

C26_Result ==
    Finished({"read"}) =>
        /\ result.st = "done"
        /\ result.val = IF Found(call.args[1], call.args[2])
                        THEN Lookup(call.args[1], call.args[2]) ELSE String("def")

BuiltinTarget(op) == popped(Machine, IF op = OP_INDEX_READ THEN 3 ELSE 2)[1]

C27_Step ==
    /\ \A op \in {OP_INDEX_EXIST, OP_INDEX_READ} :
          (AtOp(op) /\ Dispatching /\ BuiltinTarget(op).k \notin {"array", "object"}) =>
              pc' = "idle" /\ result'.st = "error"
    /\ (AtOp(OP_VALUE_EXIST) /\ Dispatching /\ BuiltinTarget(OP_VALUE_EXIST).k # "array") =>
          pc' = "idle" /\ result'.st = "error"

\* C27.  indexExist and indexRead end the run with a runtime error when
\* their target is neither an array nor an object, and valueExist does when
\* its first argument is not an array.
C27_WrongTarget == [][C27_Step]_vars


(***************************************************************************)
(* CallAsync with a cancelled context.                                      *)
(***************************************************************************)
CtxResult == VmCallResult(Null, GoError("context canceled"))

\* The futures whose goroutine found ctx cancelled.
Cancelled == {i \in DOMAIN futures : futures[i].res = CtxResult}

C28_State ==
    \A i \in Cancelled :
        /\ futures[i].at \in {"sent", "released", "closed"}
        /\ futures[i].at = "sent" => busy /\ pc = "idle"
        /\ (futures[i].at # "sent" /\ InFlight = {} /\ Copying = {}) => ~busy

C28_Step ==
    \A i \in DOMAIN futures :
        /\ (futures[i].at = "start" /\ i \in Cancelled') =>
              /\ futures'[i].at = "sent"
              /\ UNCHANGED <<core, heap, hostLog, pc, call, result, ncalls, nest, busy>>
        /\ (i \in Cancelled /\ futures[i].at = "sent" /\ futures'[i].at # "sent") =>
              /\ futures'[i] = [futures[i] EXCEPT !.at = "released"]
              /\ ~busy'
              /\ UNCHANGED <<core, heap, hostLog, pc, call, result, ncalls, nest>>
        /\ (i \in Cancelled /\ futures[i].at \in {"released", "closed"}) =>
              futures'[i].res = CtxResult

\* C28.  When ctx is cancelled at the time the goroutine of CallAsync looks
\* at it, no script code runs: the future yields ctx.Err(), the VM's globals,
\* containers, stack and log stay as they were, and the goroutine's next step
\* clears busy, after which CallAsync is accepted again.
C28_Cancelled == []C28_State /\ [][C28_Step]_vars

\* A first call was cancelled; the second, made after it, ran and stored 9 in
\* the array.
C28_Witness ==
    /\ Len(futures) = 2
    /\ 1 \in Cancelled
    /\ futures[1].inv = Invocation("setIdx", <<Array(3)>>)
    /\ futures[2].inv = Invocation("setIdx", <<Array(3)>>)
    /\ futures[2].res = VmCallResult(Null, NoError)
    /\ heap.arrs[3][1] = Number(9)


(***************************************************************************)
(* Two declarations of one name.                                            *)
(***************************************************************************)
\* Two of the top-level statements of prog declare the same function name.
Redeclares(prog) ==
    \E i, j \in DOMAIN prog :
        /\ i < j
        /\ prog[i].t = "FuncDecl" /\ prog[j].t = "FuncDecl"
        /\ prog[i].Name = prog[j].Name

\* C29.  Compile of a program in which two top-level function declarations
\* have the same name returns an error and no module.
C29_DuplicateFails ==
    (compiling.phase = "done" /\ Redeclares(compiling.prog)) =>
        /\ compiling.err # ""
        /\ compiling.Functions = EmptyMap
        /\ compiling.protos = <<>>


(***************************************************************************)
(* The caller's part of the stack.                                          *)
(***************************************************************************)
\* C30.  While a frame executes, the stack is never shorter than the frame's
\* base, so the slots below the base, which belong to the callers, are
\* neither popped nor written: sum and pair, whose callee cut has an if
\* statement, return 1 + 2.
C30_AboveBase ==
    /\ (pc = "run" /\ nest = <<>> /\ core.frames # <<>>) =>
          Len(core.stack) >= currentFrame(Machine).base
    /\ Finished({"sum", "pair"}) => result.st = "done" /\ result.val = Number(3)


(***************************************************************************)
(* The stack between two statements.                                        *)
(***************************************************************************)
\* The offset at which statement k + 1 of the body of fn begins (for k the
\* length of the body: at which the body ends).
StatementStart(fn, k) ==
    CodeLen(compileBlock(addParams([fcs |-> <<newFuncCompiler>>, protos |-> <<>>,
                                    functions |-> EmptyMap, held |-> <<>>, err |-> "",
                                    source |-> ""], fn.Params, 1),
                         SubSeq(fn.Body, 1, k)))

StatementStarts ==
    [i \in DOMAIN Program |->
        {StatementStart(Program[i], k) : k \in 0..Len(Program[i].Body)}]

\* The executing frame runs the declared function Program[i] and is between
\* two statements of its body.
BetweenStatements(i) ==
    /\ heap.funcs[currentFrame(Machine).fn].Proto = Module.Functions[Program[i].Name]
    /\ currentFrame(Machine).ip \in StatementStarts[i]

\* C31.  Every statement of a function's body is stack-neutral: before and
\* after it the stack is as high as the frame's base, an if or a while
\* having removed the condition it pushed and nothing else.
C31_StackNeutral ==
    (pc = "run" /\ nest = <<>> /\ core.frames # <<>>) =>
        \A i \in DOMAIN Program :
            BetweenStatements(i) => Len(core.stack) = currentFrame(Machine).base


(***************************************************************************)
(* The stack at a return.                                                   *)
(***************************************************************************)
\* A frame that has a caller is about to return: it is at OP_RETURN or at
\* the end of its chunk.
CalleeReturns ==
    /\ pc = "run" /\ nest = <<>> /\ Len(core.frames) >= 2
    /\ AtInstruction => readU8(Machine) = OP_RETURN

\* The caller's part of the stack: what lies below the base of the frame.
CallerPart == SubSeq(core.stack, 1, currentFrame(Machine).base)

C32_Step ==
    (CalleeReturns /\ Dispatching /\ ~LimitStop) =>
        /\ Len(core.stack) >= currentFrame(Machine).base
        /\ AtInstruction =>
              /\ Len(core.stack) > currentFrame(Machine).base
              /\ core'.stack = Append(CallerPart, core.stack[Len(core.stack)])
        /\ ~AtInstruction => core'.stack = Append(CallerPart, Null)

\* C32.  When a callee returns, the stack is cut back to the base of its
\* frame and the return value is pushed: the caller's part of the stack,
\* which the callee has left as it was, is below the base, and the value on
\* top is the one the return statement computed (null at the end of the
\* chunk).
C32_ReturnCut == [][C32_Step]_vars


(***************************************************************************)
(* The busy flag after Await.                                               *)
(***************************************************************************)
\* Await has returned the result of every CallAsync made so far, and no
\* Duplicate is copying.
AllAwaited ==
    /\ futures # <<>>
    /\ \A i \in DOMAIN futures : futures[i].awaited
    /\ Copying = {}

C33_Step ==
    AllAwaited =>
        /\ Len(futures') > Len(futures) => ~BusyRejected(futures'[Len(futures')])
        /\ Len(dups') > Len(dups) => dups'[Len(dups')].at # "rejected"

\* C33.  Once Await has returned the result of a CallAsync, the VM is not
\* busy: a CallAsync or a Duplicate made next is not rejected with the busy
\* error.
C33_IdleAfterAwait == [][C33_Step]_vars


(***************************************************************************)
(* The trace hook.                                                          *)
(***************************************************************************)
\* The turn of the loop at hand fetches an opcode.
Fetching ==
    /\ pc = "run" /\ core.frames # <<>>
    /\ heap.funcs[currentFrame(Machine).fn].Proto # 0
    /\ AtInstruction

C38_Step ==
    (Fetching /\ Dispatching) =>
        traced' = [op |-> readU8(Machine), ip |-> currentFrame(Machine).ip]

\* C38.  In every turn of the loop that fetches an opcode the trace hook is
\* called, with that opcode and its offset, whatever the turn then does: the
\* opcode on which the instruction limit is exceeded is traced as well.
C38_TraceEveryFetch == [][C38_Step]_vars


(***************************************************************************)
(* Handle calls and the busy guard.                                         *)
(***************************************************************************)
\* C34.  VmFunctionHandle.Call does not run the interpreter while a
\* CallAsync on the same VM is in flight: no handle call is inside core.Run
\* while busy is set for a goroutine that has not yet released the VM.
C34_HandleGuarded == InsideRun # {} => InFlight = {}


(***************************************************************************)
(* Every accepted CallAsync completes.                                      *)
(***************************************************************************)
\* The future with number i has the position at.
FutureAt(i, at) == i \in DOMAIN futures /\ futures[i].at = at

\* A goroutine's positions in order.
Position(at) ==
    CASE at = "start" -> 0 [] at = "run" -> 1 [] at = "sent" -> 2 [] at = "released" -> 3
      [] at = "closed" -> 4

C35_State ==
    \A i \in DOMAIN futures :
        /\ futures[i].res.sent <=> Position(futures[i].at) >= 2
        /\ Position(futures[i].at) <= 2 => busy

\* The goroutine of a future that is not closed can take a step: at "start"
\* WorkerBegin, at "run" StepRun or WorkerSend, at "sent" WorkerRelease, at
\* "released" WorkerClose.
C35_NeverStuck ==
    \A i \in DOMAIN futures :
        FutureAt(i, "run") => \/ pc = "run" /\ core.instCount < MaxSteps
                              \/ pc = "idle"

C35_Step ==
    \A i \in DOMAIN futures :
        /\ i \in DOMAIN futures'
        /\ Position(futures'[i].at) >= Position(futures[i].at)
        /\ Position(futures'[i].at) <= Position(futures[i].at) + 2
        /\ futures[i].res.sent => futures'[i].res = futures[i].res
        /\ (FutureAt(i, "sent") /\ futures'[i].at = "released") => ~busy'
        /\ (FutureAt(i, "run") /\ pc = "run" /\ core' # core) =>
              \/ core'.instCount = core.instCount + 1
              \/ Len(core'.frames) < Len(core.frames)

FrameReturns ==
    /\ pc = "run" /\ nest = <<>> /\ core.frames # <<>>
    /\ heap.funcs[currentFrame(Machine).fn].Proto # 0
    /\ AtInstruction => readU8(Machine) = OP_RETURN

\* The listed upvalues that point into the locals of the returning frame,
\* and the listed upvalues that point elsewhere.
Departing ==
    {uv \in Range(core.openUpvalues) : heap.cells[uv].l = currentFrame(Machine).locals}
Staying == Range(core.openUpvalues) \ Departing

C36_Step ==
    (FrameReturns /\ Dispatching /\ ~LimitStop) =>
        /\ core'.openUpvalues = SelectSeq(core.openUpvalues, LAMBDA uv : uv \in Staying)
        /\ \A uv \in Departing :
               heap'.cells[uv] = [heap.cells[uv] EXCEPT !.open = FALSE,
                                                        !.closed = UpvalueGet(Machine, uv)]
        /\ \A uv \in Staying :
               /\ heap'.cells[uv] = heap.cells[uv]
               /\ heap'.cells[uv].open
               /\ heap'.locals[heap.cells[uv].l] = heap.locals[heap.cells[uv].l]

\* outer's $f reads $x after inner has returned and $x was assigned 3:
\* outer() is 3 + 2.
C36_Aliasing ==
    Finished({"outer"}) => result.st = "done" /\ result.val = Number(5)

\* C36.  When a frame returns, the listed upvalues that point into its
\* locals, and only those, are closed with the local's value and taken off
\* the open list; the others stay listed in their order, open, and pointing
\* at the same locals, which the return leaves as they are, so a closure of
\* the caller still reads what the caller assigns afterwards.
C36_CloseOwn == []C36_Aliasing /\ [][C36_Step]_vars

\* inner has returned into outer: the upvalue of inner's $y is closed with
\* 2 and off the list, the upvalue of outer's $x is still listed and open.
C36_Witness ==
    /\ pc = "run" /\ nest = <<>> /\ Len(core.frames) = 1
    /\ heap.funcs[currentFrame(Machine).fn].Proto = Module.Functions["outer"]
    /\ \E uv \in Range(core.openUpvalues) :
          /\ heap.cells[uv].open
          /\ heap.cells[uv].l = currentFrame(Machine).locals
    /\ \E uv \in DOMAIN heap.cells \ Range(core.openUpvalues) :
          /\ ~heap.cells[uv].open
          /\ heap.cells[uv].closed = Number(2)

\* The invocation has returned a value to the host.
Succeeded == pc = "idle" /\ result.st = "done"

\* The upvalues that are open and on no list: those an earlier invocation
\* left open, which ResetState took off the list.
Unlisted ==
    {uv \in DOMAIN heap.cells : heap.cells[uv].open /\ uv \notin Range(core.openUpvalues)}

C37_State ==
    Succeeded =>
        /\ core.frames = <<>>
        /\ core.stack = <<>>
        /\ core.openUpvalues = <<>>

\* An upvalue made during the invocation is listed for as long as it is
\* open, so the open upvalues at the end are those of before the start.
C37_Step == pc = "run" => Unlisted' = Unlisted

\* C37.  When an invocation has returned a value, the frame list, the
\* stack and the open-upvalue list are empty, and every upvalue that was
\* made during the invocation is closed.
C37_CleanAfterSuccess == []C37_State /\ [][C37_Step]_vars

(***************************************************************************)
(* Compiling one function at a time, over bodies put together from a few   *)
(* statements and over parameter lists up to the compiler's limit.         *)
(***************************************************************************)
MaxParams == 255
MaxBody == 2

\* $x := 1
\* if ($x) { return 1 } else { return 0 }
\* if ($x) { $x = 2 } else if ($y) { $x = 3 }
\* while ($x) { $x = null }
\* for ($v in [1]) { $w := $v }
\* $x && ($y || $x)
\* $f := func() { return $x }
\* return $x
Fragments ==
    {Let("x", NumberLiteral(1)),
     IfStmt(Variable("x"), <<ReturnStmt(NumberLiteral(1))>>, <<>>,
            TRUE, <<ReturnStmt(NumberLiteral(0))>>),
     IfStmt(Variable("x"),
            <<ExprStmt(AssignExpr(Variable("x"), "=", NumberLiteral(2)))>>,
            <<ElseIfClause(Variable("y"),
                           <<ExprStmt(AssignExpr(Variable("x"), "=", NumberLiteral(3)))>>)>>,
            FALSE, <<>>),
     WhileStmt(Variable("x"), <<ExprStmt(AssignExpr(Variable("x"), "=", NullLiteral))>>),
     ForStmt("", "v", ArrayLiteral(<<NumberLiteral(1)>>), <<Let("w", Variable("v"))>>),
     ExprStmt(BinaryExpr(Variable("x"), "&&",
                         BinaryExpr(Variable("y"), "||", Variable("x")))),
     Let("f", FuncExpr(<<>>, <<ReturnStmt(Variable("x"))>>)),
     ReturnStmt(Variable("x"))}

Bodies == UNION {[1..n -> Fragments] : n \in 0..MaxBody}

\* $p1, ..., $pn
ParamNames(n) == [i \in 1..n |-> "p" \o ToString(i)]

ChunkDeclarations ==
    {FuncDecl("f", ParamNames(n), body) :
         n \in {0, 1, MaxParams - 1, MaxParams, MaxParams + 1}, body \in Bodies}

\* Compile of a program of one declaration, up to its loop.
CompileBody ==
    /\ compiling.phase = "none"
    /\ \E fn \in ChunkDeclarations :
           compiling' = [NoCompile EXCEPT !.prog = <<fn>>, !.phase = "loop"]
    /\ UNCHANGED <<core, heap, hostLog, pc, call, result, ncalls, busy, futures, dups, twin,
                   parser, lexer, nest, traced, handles>>

NextChunk == CompileBody \/ CompileTurn \/ CompileReturn

SpecChunk == Init /\ [][NextChunk]_vars

\* decodeOperands: the offset after the operands of the opcode at offset
\* ip - 1, ip being the offset after the opcode.
decodeOperands(op, chunk, ip) ==
    CASE op \in {OP_CONST, OP_GET_GLOBAL, OP_SET_GLOBAL, OP_DEFINE_GLOBAL, OP_GET_PROP,
                 OP_SET_PROP, OP_ARRAY, OP_OBJECT, OP_JUMP, OP_JUMP_IF_FALSE,
                 OP_JUMP_IF_TRUE, OP_ITER_NEXT} -> ip + 2
      [] op \in {OP_GET_LOCAL, OP_SET_LOCAL, OP_GET_UPVALUE, OP_SET_UPVALUE, OP_CALL} -> ip + 1
      [] op = OP_CLOSURE ->
             IF ip + 3 > Len(chunk.Code) THEN ip + 3 ELSE ip + 3 + 2 * chunk.Code[ip + 3]
      [] OTHER -> ip

\* disassembleChunk from offset ip on: the offsets at which it prints an
\* instruction.
RECURSIVE disassembleChunk(_, _)
disassembleChunk(chunk, ip) ==
    IF ip >= Len(chunk.Code) THEN {}
    ELSE {ip} \cup disassembleChunk(chunk, decodeOperands(chunk.Code[ip + 1], chunk, ip + 1))

Instructions(chunk) == disassembleChunk(chunk, 0)

\* The opcode at offset ip and its first two operand bytes read as a u16.
OpAt(chunk, ip) == chunk.Code[ip + 1]
U16At(chunk, ip) == chunk.Code[ip + 2] * 256 + chunk.Code[ip + 3]

JumpOps == {OP_JUMP, OP_JUMP_IF_FALSE, OP_JUMP_IF_TRUE, OP_ITER_NEXT}
ConstOps == {OP_CONST, OP_GET_GLOBAL, OP_SET_GLOBAL, OP_DEFINE_GLOBAL, OP_GET_PROP,
             OP_SET_PROP, OP_CLOSURE}

\* The chunks the compilation in progress has produced.
Chunks == {compiling.protos[i].Chunk : i \in DOMAIN compiling.protos}

Whole(chunk) == \A ip \in Instructions(chunk) :
                    decodeOperands(OpAt(chunk, ip), chunk, ip + 1) <= Len(chunk.Code)

ConstsInRange(chunk) ==
    \A ip \in Instructions(chunk) :
        OpAt(chunk, ip) \in ConstOps => U16At(chunk, ip) < Len(chunk.Consts)

JumpsWithin(chunk, targets) ==
    \A ip \in Instructions(chunk) :
        OpAt(chunk, ip) \in JumpOps => U16At(chunk, ip) \in targets

LocalOperands(chunk) ==
    {chunk.Code[ip + 2] : ip \in {i \in Instructions(chunk) :
                                      OpAt(chunk, i) \in {OP_GET_LOCAL, OP_SET_LOCAL}}}
    \cup UNION {{chunk.Code[ip + 4 + 2 * k] :
                     k \in {j \in 1..chunk.Code[ip + 4] : chunk.Code[ip + 3 + 2 * j] = 1}} :
                ip \in {i \in Instructions(chunk) : OpAt(chunk, i) = OP_CLOSURE}}

\* The scope of the declared function when its body has been compiled.
ScopeOf(fn) ==
    Top(compileBlock(addParams([fcs |-> <<newFuncCompiler>>, protos |-> <<>>,
                                functions |-> EmptyMap, held |-> <<>>, err |-> "",
                                source |-> ""], fn.Params, 1), fn.Body)).scope

Compiled == compiling.phase = "done" /\ compiling.err = "" /\ compiling.prog # <<>>

\* C40.  In every prototype compiled, the local slots its instructions
\* name are below MaxLocals, and two locals of a function have two slots,
\* however many locals the function has.
C40_SlotsDistinct ==
    Compiled =>
        /\ \A i \in DOMAIN compiling.protos :
               \A slot \in LocalOperands(compiling.protos[i].Chunk) :
                   slot < compiling.protos[i].MaxLocals
        /\ \A fn \in Range(compiling.prog) :
               LET locals == ScopeOf(fn).locals
               IN Cardinality({locals[name] : name \in DOMAIN locals})
                      = Cardinality(DOMAIN locals)

====
